---- MODULE Spec2Model ----
(***************************************************************************)
(* A model of the brand-name evaluator (MaxGhenis/namecast): the string    *)
(* metrics, the similar-company finder of both evaluator variants          *)
(* (brandval: static catalog first, oracle merged in; namecast: oracle     *)
(* only), the dimension scorers, evaluate(), the report of a result and    *)
(* the front ends (HTTP API and command line).                             *)
(*                                                                         *)
(* Strings are sequences of one-character strings.  Similarity scores are  *)
(* exact rationals [num, den]; the rounding of IEEE doubles is not         *)
(* modelled (it matters only for a score that ties with a threshold).      *)
(* The scores out of 100 are exact fractions in lowest terms.              *)
(***************************************************************************)
EXTENDS Integers, Sequences, FiniteSets, TLC

VARIABLES
    \* string metrics: one call of _calculate_similarity(name1, name2)
    name1, name2, simPc, similarity,
    \* similar-company finder: one call on `name` in the deployed variant
    variant, apiKey, name, pc, static_result, llm_response, similar, raised,
    \* dimension scorers called on their own
    domainsArg, scorePc, domain_score,
    \* evaluate(name, mission): the lookups' outcomes, the results of the
    \* checks (evaluate's local variables) and the EvaluationResult
    evPc, mission, whois, checks, evaluation,
    \* _merge_similar_results(static_arg, llm_arg) called on its own
    mergePc, static_arg, llm_arg, merge_result,
    \* _levenshtein_distance(lev_a, lev_b) called on its own
    levPc, lev_a, lev_b, distance,
    \* check_domains(name): the domains looked up and the map returned
    domPc, lookups, domain_map,
    \* analyze_pronunciation(name) called on its own
    pronPc, pron_result,
    \* a request at a front end: the handler's response and the names it
    \* called BrandEvaluator.evaluate on, in call order
    frontPc, frontend, route, authorized, output_json, request_names, response,
    evaluated,
    \* to_markdown() of the EvaluationResult
    report,
    \* check_international(name) and _calc_international_score of its result
    intlPc, intl_result, intl_score,
    \* _get_similarity_reason(name1, name2) called on its own
    reasonPc, reason_code,
    \* _simplify_phonetic(name) called on its own
    phonPc, phonetic_key,
    \* a batch of names evaluated by concurrent calls of evaluate on the one
    \* BrandEvaluator: what the collaborators answer for each name, and each
    \* call's position, local variables and EvaluationResult
    batch_names, whois_of, oracle_of, batch_pc, batch_checks, batch_results,
    batch_winner,
    \* POST /workflow/stream: the request, the generator's position and local
    \* variables, and the events it has yielded
    streamPc, name_ideas, max_to_evaluate, all_candidates, viable_candidates,
    evaluated_candidates, cursor, recommended, events

simVars == <<name1, name2, simPc, similarity>>
findVars == <<variant, apiKey, name, pc, static_result, llm_response, similar, raised>>
scoreVars == <<domainsArg, scorePc, domain_score>>
evalVars == <<evPc, mission, whois, checks, evaluation>>
coreVars == <<simVars, findVars, scoreVars, evalVars>>
mergeVars == <<mergePc, static_arg, llm_arg, merge_result>>
levVars == <<levPc, lev_a, lev_b, distance>>
domVars == <<domPc, lookups, domain_map>>
pronVars == <<pronPc, pron_result>>
frontVars == <<frontPc, frontend, route, authorized, output_json, request_names,
               response, evaluated>>
reportVars == <<report>>
extVars == <<mergeVars, levVars, domVars, pronVars, frontVars, reportVars>>
intlVars == <<intlPc, intl_result, intl_score>>
reasonVars == <<reasonPc, reason_code>>
phonVars == <<phonPc, phonetic_key>>
batchVars == <<batch_names, whois_of, oracle_of, batch_pc, batch_checks,
               batch_results, batch_winner>>
streamVars == <<streamPc, name_ideas, max_to_evaluate, all_candidates,
                viable_candidates, evaluated_candidates, cursor, recommended, events>>
moreVars == <<intlVars, reasonVars, phonVars, batchVars, streamVars>>
vars == <<coreVars, extVars, moreVars>>

None == "None"

-----------------------------------------------------------------------------
(* Bounds of the model *)

\* longest generated name over Alphabet
MaxLen == 3

\* generated names: every string over these characters up to MaxLen
Alphabet == {"e", "y", "K"}

RECURSIVE StrsOfLen(_)
StrsOfLen(n) ==
    IF n = 0 THEN {<<>>}
    ELSE {Append(s, c) : s \in StrsOfLen(n - 1), c \in Alphabet}

Strs == UNION {StrsOfLen(n) : n \in 0..MaxLen}

\* names of the repository's tests, comments and prompts, and close variants
SampleNames ==
    { <<"S", "t", "r", "i", "p", "e">>,
      <<"S", "t", "r", "i", "p", "e", "y">>,
      <<"z", "o", "o", "m">>,
      <<"Z", "o", "o", "m", "y">>,
      <<"s", "l", "a", "k">>,
      <<"b", "r", "a", "x">>,
      <<"d", "a", "t", "a">>,
      <<"c", "a">>,
      <<"c", "o", "u", "e", "a", "e">>,
      <<"c", "o", "d", "a", "s">>,
      <<"A", "c", "m", "e">>,
      <<"M", "i", "s", "t">>,
      <<"L", "u", "m", "a">>,
      <<"N", "o", "t", "i", "o", "n">>,
      <<"M", "o", "t", "i", "o", "n">>,
      <<"S", "p", "o", "t", "i", "f", "y">> }

Names == Strs \cup SampleNames

-----------------------------------------------------------------------------
(* str methods *)

UpperCase == <<"A", "B", "C", "D", "E", "F", "G", "H", "I", "J", "K", "L", "M", "N", "O", "P", "Q", "R", "S", "T", "U", "V", "W", "X", "Y", "Z">>

LowerCase == <<"a", "b", "c", "d", "e", "f", "g", "h", "i", "j", "k", "l", "m", "n", "o", "p", "q", "r", "s", "t", "u", "v", "w", "x", "y", "z">>

is_upper(c) == \E i \in 1..Len(UpperCase) : UpperCase[i] = c

is_lower(c) == \E i \in 1..Len(LowerCase) : LowerCase[i] = c

lower_char(c) ==
    IF is_upper(c)
    THEN LowerCase[CHOOSE i \in 1..Len(UpperCase) : UpperCase[i] = c]
    ELSE c

upper_char(c) ==
    IF is_lower(c)
    THEN UpperCase[CHOOSE i \in 1..Len(LowerCase) : LowerCase[i] = c]
    ELSE c

\* str.lower()
lower(s) == [i \in 1..Len(s) |-> lower_char(s[i])]

\* str.title(): a letter after a non-letter is upper-cased, the others lower-cased
title(s) ==
    [i \in 1..Len(s) |->
        IF i = 1 \/ ~(is_upper(s[i - 1]) \/ is_lower(s[i - 1]))
        THEN upper_char(s[i])
        ELSE lower_char(s[i])]

\* str.startswith(p)
startswith(s, p) == Len(p) <= Len(s) /\ SubSeq(s, 1, Len(p)) = p

\* str.replace(old, new): left to right, non-overlapping (old is not empty)
RECURSIVE replace(_, _, _)
replace(s, old, new) ==
    IF Len(s) < Len(old) THEN s
    ELSE IF SubSeq(s, 1, Len(old)) = old
         THEN new \o replace(SubSeq(s, Len(old) + 1, Len(s)), old, new)
         ELSE <<s[1]>> \o replace(Tail(s), old, new)

\* pattern in s
contains(s, pattern) ==
    \E i \in 1..(Len(s) - Len(pattern) + 1) :
        SubSeq(s, i, i + Len(pattern) - 1) = pattern

-----------------------------------------------------------------------------
(* StringMetrics and SimilarityScorer (brandval) *)

\* mutant: the substitution is left out of the minimum
Min3_without_substitution(a, b, c) ==
    IF a <= b THEN a ELSE b

Min3(a, b, c) ==
    IF a <= b /\ a <= c THEN a ELSE IF b <= c THEN b ELSE c

\* the inner loop: curr_row, cell by cell
RECURSIVE lev_curr_row(_, _, _, _)
lev_curr_row(prev_row, c1, s2, curr_row) ==
    IF Len(curr_row) = Len(s2) + 1 THEN curr_row
    ELSE LET j == Len(curr_row)
             insertions == prev_row[j + 1] + 1
             deletions == curr_row[j] + 1
             substitutions == prev_row[j] + (IF c1 # s2[j] THEN 1 ELSE 0)
         IN  lev_curr_row(prev_row, c1, s2,
                 Append(curr_row, Min3(insertions, deletions, substitutions)))

\* the outer loop over s1
RECURSIVE lev_rows(_, _, _, _)
lev_rows(s1, s2, i, prev_row) ==
    IF i > Len(s1) THEN prev_row[Len(prev_row)]
    ELSE lev_rows(s1, s2, i + 1, lev_curr_row(prev_row, s1[i], s2, <<i>>))

_levenshtein_distance(s1, s2) ==
    LET a == IF Len(s1) < Len(s2) THEN s2 ELSE s1
        b == IF Len(s1) < Len(s2) THEN s1 ELSE s2
    IN  IF Len(b) = 0 THEN Len(a)
        ELSE lev_rows(a, b, 1, [j \in 1..(Len(b) + 1) |-> j - 1])

replacements ==
    << <<"p", "h", "f">>, <<"c", "k", "k">>, <<"g", "h", "g">>,
       <<"k", "n", "n">>, <<"w", "r", "r">>, <<"w", "h", "w">>,
       <<"e", "e", "i">>, <<"e", "a", "i">>, <<"o", "o", "u">>,
       <<"o", "u", "u">>, <<"a", "i", "a">>, <<"a", "y", "a">>,
       <<"e", "y", "i">>, <<"i", "e", "i">> >>

\* mutant: the replacements are applied last to first
RECURSIVE apply_replacements_reversed(_, _)
apply_replacements_reversed(s, k) ==
    IF k > Len(replacements) THEN replace(s, <<"y">>, <<"i">>)
    ELSE replace(apply_replacements_reversed(s, k + 1),
                 SubSeq(replacements[k], 1, 2), <<replacements[k][3]>>)

RECURSIVE apply_replacements(_, _)
apply_replacements(s, k) ==
    IF k > Len(replacements) THEN replace(s, <<"y">>, <<"i">>)
    ELSE apply_replacements(
             replace(s, SubSeq(replacements[k], 1, 2), <<replacements[k][3]>>),
             k + 1)

Vowels == {"a", "e", "i", "o", "u"}

_simplify_phonetic(s) ==
    LET n == apply_replacements(lower(s), 1)
    IN  IF Len(n) > 1
        THEN <<n[1]>> \o SelectSeq(Tail(n), LAMBDA c : c \notin Vowels)
        ELSE n

Max(a, b) == IF a >= b THEN a ELSE b

Min(a, b) == IF a <= b THEN a ELSE b

\* length of the common prefix, as the loop counts it
RECURSIVE prefix_len(_, _, _)
prefix_len(n1, n2, i) ==
    IF i > Min(Len(n1), Len(n2)) THEN i - 1
    ELSE IF n1[i] = n2[i] THEN prefix_len(n1, n2, i + 1)
    ELSE i - 1

\* 100 * phonetic_similarity: the second assignment overwrites the first
phonetic_similarity(phonetic1, phonetic2) ==
    IF startswith(phonetic1, phonetic2) \/ startswith(phonetic2, phonetic1)
    THEN 70
    ELSE IF phonetic1 = phonetic2 THEN 100 ELSE 0

\* the score as the rational num / den
_calculate_similarity(n1, n2) ==
    LET edit_distance == _levenshtein_distance(n1, n2)
        max_len == Max(Len(n1), Len(n2))
        ps == phonetic_similarity(_simplify_phonetic(n1), _simplify_phonetic(n2))
        pl == prefix_len(n1, n2, 1)
    IN  IF max_len > 0
        THEN [num |-> 400 * (max_len - edit_distance) + 4 * ps * max_len + 200 * pl,
              den |-> 1000 * max_len]
        ELSE [num |-> 400 + 4 * ps, den |-> 1000]

\* comparisons of scores
ScoreGT(x, y) == x.num * y.den > y.num * x.den

ScoreGE(x, y) == x.num * y.den >= y.num * x.den

\* x > pct / 100
ScoreAbove(x, pct) == x.num * 100 > pct * x.den

\* mutant: the phonetic keys are compared before the prefixes
_get_similarity_reason_phonetic_first(n1, n2) ==
    IF n1 = n2 THEN "identical"
    ELSE IF _simplify_phonetic(n1) = _simplify_phonetic(n2) THEN "sounds similar"
    ELSE IF startswith(n1, n2) \/ startswith(n2, n1) THEN "shares prefix"
    ELSE IF _levenshtein_distance(n1, n2) <= 2 THEN "very close spelling"
    ELSE IF _levenshtein_distance(n1, n2) <= 4 THEN "similar spelling"
    ELSE "partially similar"

_get_similarity_reason(n1, n2) ==
    IF n1 = n2 THEN "identical"
    ELSE IF startswith(n1, n2) \/ startswith(n2, n1) THEN "shares prefix"
    ELSE IF _simplify_phonetic(n1) = _simplify_phonetic(n2) THEN "sounds similar"
    ELSE IF _levenshtein_distance(n1, n2) <= 2 THEN "very close spelling"
    ELSE IF _levenshtein_distance(n1, n2) <= 4 THEN "similar spelling"
    ELSE "partially similar"

-----------------------------------------------------------------------------
(* KnownEntityCatalog: the dict of _find_similar_static, in insertion order *)
(* (a repeated key keeps its first position and takes the last value)      *)

known_companies ==
    <<
      [company |-> <<"s", "t", "r", "i", "p", "e">>, industry |-> "payments"],
      [company |-> <<"s", "h", "o", "p", "i", "f", "y">>, industry |-> "e-commerce"],
      [company |-> <<"s", "l", "a", "c", "k">>, industry |-> "communication"],
      [company |-> <<"z", "o", "o", "m">>, industry |-> "video conferencing"],
      [company |-> <<"n", "o", "t", "i", "o", "n">>, industry |-> "productivity"],
      [company |-> <<"f", "i", "g", "m", "a">>, industry |-> "design"],
      [company |-> <<"c", "a", "n", "v", "a">>, industry |-> "design"],
      [company |-> <<"a", "s", "a", "n", "a">>, industry |-> "project management"],
      [company |-> <<"t", "r", "e", "l", "l", "o">>, industry |-> "project management"],
      [company |-> <<"a", "i", "r", "t", "a", "b", "l", "e">>, industry |-> "productivity"],
      [company |-> <<"h", "u", "b", "s", "p", "o", "t">>, industry |-> "marketing"],
      [company |-> <<"m", "a", "i", "l", "c", "h", "i", "m", "p">>, industry |-> "email marketing"],
      [company |-> <<"t", "w", "i", "l", "i", "o">>, industry |-> "communication APIs"],
      [company |-> <<"p", "l", "a", "i", "d">>, industry |-> "fintech"],
      [company |-> <<"b", "r", "e", "x">>, industry |-> "fintech"],
      [company |-> <<"r", "a", "m", "p">>, industry |-> "fintech"],
      [company |-> <<"g", "u", "s", "t", "o">>, industry |-> "HR/payroll"],
      [company |-> <<"r", "i", "p", "p", "l", "i", "n", "g">>, industry |-> "HR"],
      [company |-> <<"d", "e", "e", "l">>, industry |-> "HR"],
      [company |-> <<"l", "a", "t", "t", "i", "c", "e">>, industry |-> "HR"],
      [company |-> <<"l", "e", "v", "e", "r">>, industry |-> "recruiting"],
      [company |-> <<"g", "r", "e", "e", "n", "h", "o", "u", "s", "e">>, industry |-> "recruiting"],
      [company |-> <<"d", "a", "t", "a", "d", "o", "g">>, industry |-> "monitoring"],
      [company |-> <<"s", "n", "o", "w", "f", "l", "a", "k", "e">>, industry |-> "data"],
      [company |-> <<"d", "a", "t", "a", "b", "r", "i", "c", "k", "s">>, industry |-> "data"],
      [company |-> <<"c", "o", "n", "f", "l", "u", "e", "n", "t">>, industry |-> "data streaming"],
      [company |-> <<"v", "e", "r", "c", "e", "l">>, industry |-> "hosting"],
      [company |-> <<"n", "e", "t", "l", "i", "f", "y">>, industry |-> "hosting"],
      [company |-> <<"s", "u", "p", "a", "b", "a", "s", "e">>, industry |-> "database"],
      [company |-> <<"f", "i", "r", "e", "b", "a", "s", "e">>, industry |-> "backend"],
      [company |-> <<"m", "o", "n", "g", "o", "d", "b">>, industry |-> "database"],
      [company |-> <<"e", "l", "a", "s", "t", "i", "c">>, industry |-> "search"],
      [company |-> <<"a", "l", "g", "o", "l", "i", "a">>, industry |-> "search"],
      [company |-> <<"a", "u", "t", "h", "0">>, industry |-> "authentication"],
      [company |-> <<"o", "k", "t", "a">>, industry |-> "identity"],
      [company |-> <<"c", "l", "o", "u", "d", "f", "l", "a", "r", "e">>, industry |-> "infrastructure"],
      [company |-> <<"f", "a", "s", "t", "l", "y">>, industry |-> "CDN"],
      [company |-> <<"s", "e", "g", "m", "e", "n", "t">>, industry |-> "analytics"],
      [company |-> <<"a", "m", "p", "l", "i", "t", "u", "d", "e">>, industry |-> "analytics"],
      [company |-> <<"m", "i", "x", "p", "a", "n", "e", "l">>, industry |-> "analytics"],
      [company |-> <<"i", "n", "t", "e", "r", "c", "o", "m">>, industry |-> "customer support"],
      [company |-> <<"z", "e", "n", "d", "e", "s", "k">>, industry |-> "customer support"],
      [company |-> <<"f", "r", "e", "s", "h", "w", "o", "r", "k", "s">>, industry |-> "customer support"],
      [company |-> <<"c", "a", "l", "e", "n", "d", "l", "y">>, industry |-> "scheduling"],
      [company |-> <<"l", "o", "o", "m">>, industry |-> "video"],
      [company |-> <<"m", "i", "r", "o">>, industry |-> "collaboration"],
      [company |-> <<"l", "i", "n", "e", "a", "r">>, industry |-> "project management"],
      [company |-> <<"m", "o", "n", "d", "a", "y">>, industry |-> "project management"],
      [company |-> <<"c", "l", "i", "c", "k", "u", "p">>, industry |-> "project management"],
      [company |-> <<"a", "n", "t", "h", "r", "o", "p", "i", "c">>, industry |-> "AI"],
      [company |-> <<"o", "p", "e", "n", "a", "i">>, industry |-> "AI"],
      [company |-> <<"c", "o", "h", "e", "r", "e">>, industry |-> "AI"],
      [company |-> <<"s", "t", "a", "b", "i", "l", "i", "t", "y">>, industry |-> "AI"],
      [company |-> <<"m", "i", "d", "j", "o", "u", "r", "n", "e", "y">>, industry |-> "AI"],
      [company |-> <<"j", "a", "s", "p", "e", "r">>, industry |-> "AI"],
      [company |-> <<"c", "o", "p", "y", ".", "a", "i">>, industry |-> "AI"],
      [company |-> <<"g", "r", "a", "m", "m", "a", "r", "l", "y">>, industry |-> "writing"],
      [company |-> <<"c", "o", "d", "a">>, industry |-> "productivity"]
    >>

-----------------------------------------------------------------------------
(* SimilarCompanyFinder: the static pass *)

SimilarCompany(n, score, industry, reason) ==
    [name |-> n, similarity_score |-> score, industry |-> industry, reason |-> reason]

SimilarCompaniesResult(matches, confusion_risk) ==
    [matches |-> matches, confusion_risk |-> confusion_risk]

\* the loop over known_companies.items(): the entries scoring above 0.5, in
\* the dict's order
static_matches(name_lower) ==
    LET scored == [k \in 1..Len(known_companies) |->
                      [entry |-> known_companies[k],
                       sim |-> _calculate_similarity(name_lower, known_companies[k].company)]]
        kept == SelectSeq(scored, LAMBDA e : ScoreAbove(e.sim, 50))
    IN  [i \in 1..Len(kept) |->
            SimilarCompany(title(kept[i].entry.company), kept[i].sim,
                           kept[i].entry.industry,
                           _get_similarity_reason(name_lower, kept[i].entry.company))]

\* list.sort(key=similarity_score, reverse=True): stable
RECURSIVE insert_desc(_, _)
insert_desc(sorted, x) ==
    IF Len(sorted) = 0 THEN <<x>>
    ELSE IF ScoreGT(x.similarity_score, Head(sorted).similarity_score)
         THEN <<x>> \o sorted
         ELSE <<Head(sorted)>> \o insert_desc(Tail(sorted), x)

\* mutant: the list is left in the catalog's order
sort_by_score_unsorted(matches) == matches

RECURSIVE sort_by_score(_)
sort_by_score(matches) ==
    IF Len(matches) = 0 THEN <<>>
    ELSE insert_desc(sort_by_score(SubSeq(matches, 1, Len(matches) - 1)),
                     matches[Len(matches)])

\* matches[:5]
top5(matches) == SubSeq(matches, 1, Min(5, Len(matches)))

\* mutant: "high" only above 0.9
static_confusion_risk_90(matches) ==
    IF \E i \in 1..Len(matches) : ScoreAbove(matches[i].similarity_score, 90)
    THEN "high"
    ELSE IF \E i \in 1..Len(matches) : ScoreAbove(matches[i].similarity_score, 60)
         THEN "medium"
    ELSE "low"

\* mutant: "medium" only above 0.7
static_confusion_risk_70(matches) ==
    IF \E i \in 1..Len(matches) : ScoreAbove(matches[i].similarity_score, 80)
    THEN "high"
    ELSE IF \E i \in 1..Len(matches) : ScoreAbove(matches[i].similarity_score, 70)
         THEN "medium"
    ELSE "low"

static_confusion_risk(matches) ==
    IF Len(matches) = 0 THEN "low"
    ELSE IF \E i \in 1..Len(matches) : ScoreAbove(matches[i].similarity_score, 80)
         THEN "high"
    ELSE IF \E i \in 1..Len(matches) : ScoreAbove(matches[i].similarity_score, 60)
         THEN "medium"
    ELSE "low"

_find_similar_static(nm) ==
    LET matches == top5(sort_by_score(static_matches(lower(nm))))
    IN  SimilarCompaniesResult(matches, static_confusion_risk(matches))

-----------------------------------------------------------------------------
(* Values of the variables a specification does not use *)

NoScore == [num |-> 0, den |-> 1]

NoResult == SimilarCompaniesResult(<<>>, "")

NoResponse == [kind |-> "none"]

SimIdle ==
    /\ name1 = <<>> /\ name2 = <<>> /\ simPc = "idle" /\ similarity = NoScore

FindIdle ==
    /\ variant = "brandval" /\ apiKey = FALSE /\ name = <<>> /\ pc = "idle"
    /\ static_result = NoResult /\ llm_response = NoResponse
    /\ similar = NoResult /\ raised = FALSE

ScoreIdle ==
    /\ domainsArg = <<>> /\ scorePc = "idle" /\ domain_score = NoScore

EvalIdle ==
    /\ evPc = "idle" /\ mission = None /\ whois = <<>>
    /\ checks = <<>> /\ evaluation = <<>>

MergeIdle ==
    /\ mergePc = "idle" /\ static_arg = NoResult /\ llm_arg = NoResult
    /\ merge_result = NoResult

LevIdle ==
    /\ levPc = "idle" /\ lev_a = <<>> /\ lev_b = <<>> /\ distance = None

DomIdle ==
    /\ domPc = "idle" /\ lookups = <<>> /\ domain_map = <<>>

PronIdle ==
    /\ pronPc = "idle" /\ pron_result = <<>>

FrontIdle ==
    /\ frontPc = "idle" /\ frontend = None /\ route = None /\ authorized = TRUE
    /\ output_json = FALSE
    /\ request_names = <<>> /\ response = <<>> /\ evaluated = <<>>

ReportIdle == report = None

ExtIdle == MergeIdle /\ LevIdle /\ DomIdle /\ PronIdle /\ FrontIdle /\ ReportIdle

IntlIdle == intlPc = "idle" /\ intl_result = <<>> /\ intl_score = NoScore

ReasonIdle == reasonPc = "idle" /\ reason_code = None

PhonIdle == phonPc = "idle" /\ phonetic_key = None

BatchIdle ==
    /\ batch_names = <<>> /\ whois_of = <<>> /\ oracle_of = <<>>
    /\ batch_pc = <<>> /\ batch_checks = <<>> /\ batch_results = <<>>
    /\ batch_winner = None

StreamIdle ==
    /\ streamPc = "idle" /\ name_ideas = <<>> /\ max_to_evaluate = 0
    /\ all_candidates = <<>> /\ viable_candidates = <<>>
    /\ evaluated_candidates = <<>> /\ cursor = 0 /\ recommended = <<>>
    /\ events = <<>>

MoreIdle == IntlIdle /\ ReasonIdle /\ PhonIdle /\ BatchIdle /\ StreamIdle

-----------------------------------------------------------------------------
(* SpecSim: _calculate_similarity called on every pair of names *)

InitSim ==
    /\ name1 \in Names /\ name2 \in Names
    /\ simPc = "call" /\ similarity = NoScore
    /\ FindIdle /\ ScoreIdle /\ EvalIdle /\ ExtIdle /\ MoreIdle

CalculateSimilarity ==
    /\ simPc = "call"
    /\ similarity' = _calculate_similarity(name1, name2)
    /\ simPc' = "return"
    /\ UNCHANGED <<name1, name2, findVars, scoreVars, evalVars, extVars, moreVars>>

NextSim == CalculateSimilarity

SpecSim == InitSim /\ [][NextSim]_vars

-----------------------------------------------------------------------------
(* SpecLev: _levenshtein_distance called on every pair of strings *)

LevNames ==
    Strs \cup { <<"z", "o", "o", "m">>, <<"Z", "o", "o", "m", "y">> }

InitLev ==
    /\ lev_a \in LevNames /\ lev_b \in LevNames
    /\ levPc = "call" /\ distance = None
    /\ SimIdle /\ FindIdle /\ ScoreIdle /\ EvalIdle
    /\ MergeIdle /\ DomIdle /\ PronIdle /\ FrontIdle /\ ReportIdle /\ MoreIdle

LevenshteinDistance ==
    /\ levPc = "call"
    /\ distance' = _levenshtein_distance(lev_a, lev_b)
    /\ levPc' = "return"
    /\ UNCHANGED <<lev_a, lev_b, coreVars, mergeVars, domVars, pronVars, frontVars,
                   reportVars, moreVars>>

NextLev == LevenshteinDistance

SpecLev == InitLev /\ [][NextLev]_vars

-----------------------------------------------------------------------------
(* SpecStatic: _find_similar_static called on every name *)

InitStatic ==
    /\ variant = "brandval" /\ apiKey = FALSE /\ name \in Names
    /\ pc = "call_static"
    /\ static_result = NoResult /\ llm_response = NoResponse
    /\ similar = NoResult /\ raised = FALSE
    /\ SimIdle /\ ScoreIdle /\ EvalIdle /\ ExtIdle /\ MoreIdle

FindSimilarStatic ==
    /\ pc = "call_static"
    /\ similar' = _find_similar_static(name)
    /\ pc' = "return"
    /\ UNCHANGED <<variant, apiKey, name, static_result, llm_response, raised,
                   simVars, scoreVars, evalVars, extVars, moreVars>>

NextStatic == FindSimilarStatic

SpecStatic == InitStatic /\ [][NextStatic]_vars

-----------------------------------------------------------------------------
(* SimilarCompanyFinder: the oracle (LLM) and the merge *)

\* longest match list the oracle answers with
MaxOracleLen == 4

\* what the oracle proposes: names that differ in case only, scores out of order
OraclePool ==
    { SimilarCompany(<<"s", "t", "r", "i", "p", "e">>, [num |-> 60, den |-> 100],
                     "payments", "visually similar"),
      SimilarCompany(<<"S", "q", "u", "a", "r", "e">>, [num |-> 90, den |-> 100],
                     "payments", "same product category"),
      SimilarCompany(<<"S", "T", "R", "I", "P", "E">>, [num |-> 95, den |-> 100],
                     "payments", "phonetically similar") }

RECURSIVE SeqsOfLen(_, _)
SeqsOfLen(S, n) ==
    IF n = 0 THEN {<<>>}
    ELSE {Append(s, x) : s \in SeqsOfLen(S, n - 1), x \in S}

OracleLists(pool, n) == UNION {SeqsOfLen(pool, k) : k \in 0..n}

\* "critical" stands for any label outside low / medium / high
OracleRisks == {"low", "medium", "high", "critical"}

\* the oracle's answers: the call raises (API error, timeout, missing package),
\* the text is not JSON, the JSON is not an object, a match lacks a key, or a
\* JSON object whose "matches" and "confusion_risk" keys may each be absent
OracleFailures ==
    { [kind |-> k, has_matches |-> FALSE, matches |-> <<>>,
       has_risk |-> FALSE, confusion_risk |-> ""] :
      k \in {"api_error", "invalid_json", "not_object", "match_missing_key"} }

OracleObjects(pool, n) ==
    { [kind |-> "object", has_matches |-> TRUE, matches |-> m,
       has_risk |-> TRUE, confusion_risk |-> r] :
      m \in OracleLists(pool, n), r \in OracleRisks }
    \cup
    { [kind |-> "object", has_matches |-> TRUE, matches |-> m,
       has_risk |-> FALSE, confusion_risk |-> ""] : m \in OracleLists(pool, n) }
    \cup
    { [kind |-> "object", has_matches |-> FALSE, matches |-> <<>>,
       has_risk |-> TRUE, confusion_risk |-> r] : r \in OracleRisks }
    \cup
    { [kind |-> "object", has_matches |-> FALSE, matches |-> <<>>,
       has_risk |-> FALSE, confusion_risk |-> ""] }

OracleResponses(pool, n) == OracleFailures \cup OracleObjects(pool, n)

\* _find_similar_with_llm on the oracle's answer: it raises, or returns what the
\* oracle said, the absent keys defaulted
_find_similar_with_llm(resp) ==
    IF resp.kind # "object"
    THEN [raises |-> TRUE, result |-> NoResult]
    ELSE [raises |-> FALSE,
          result |-> SimilarCompaniesResult(
                         IF resp.has_matches THEN resp.matches ELSE <<>>,
                         IF resp.has_risk THEN resp.confusion_risk ELSE "low")]

\* one loop of the merge: append the matches whose lower-cased name is new
RECURSIVE merge_loop(_, _, _)
merge_loop(matches, i, merged) ==
    IF i > Len(matches) THEN merged
    ELSE IF \E j \in 1..Len(merged) : lower(merged[j].name) = lower(matches[i].name)
         THEN merge_loop(matches, i + 1, merged)
         ELSE merge_loop(matches, i + 1, Append(merged, matches[i]))

\* risk_order.get(risk, 0)
risk_order(risk) ==
    IF risk = "high" THEN 2 ELSE IF risk = "medium" THEN 1 ELSE 0

\* mutant: the static matches are taken first, the oracle's added after
_merge_similar_results_static_first(static, llm) ==
    LET merged_matches ==
            top5(sort_by_score(
                merge_loop(llm.matches, 1, merge_loop(static.matches, 1, <<>>))))
        confusion_risk ==
            IF risk_order(llm.confusion_risk) > risk_order(static.confusion_risk)
            THEN llm.confusion_risk
            ELSE static.confusion_risk
    IN  SimilarCompaniesResult(merged_matches, confusion_risk)

\* mutant: the oracle's risk label always wins
_merge_similar_results_llm_risk(static, llm) ==
    LET merged_matches ==
            top5(sort_by_score(
                merge_loop(static.matches, 1, merge_loop(llm.matches, 1, <<>>))))
    IN  SimilarCompaniesResult(merged_matches, llm.confusion_risk)

_merge_similar_results(static, llm) ==
    LET merged_matches ==
            top5(sort_by_score(
                merge_loop(static.matches, 1, merge_loop(llm.matches, 1, <<>>))))
        confusion_risk ==
            IF risk_order(llm.confusion_risk) > risk_order(static.confusion_risk)
            THEN llm.confusion_risk
            ELSE static.confusion_risk
    IN  SimilarCompaniesResult(merged_matches, confusion_risk)

\* mutant: no try / except around the oracle call
brandval_find_similar_companies_no_except(static, key, resp) ==
    IF key /\ ~_find_similar_with_llm(resp).raises
    THEN [raised |-> FALSE,
          result |-> _merge_similar_results(static, _find_similar_with_llm(resp).result)]
    ELSE [raised |-> key, result |-> IF key THEN NoResult ELSE static]

\* brandval find_similar_companies, given the static pass's result and, with an
\* API key, the oracle's answer: [raised, result]
brandval_find_similar_companies(static, key, resp) ==
    IF key /\ ~_find_similar_with_llm(resp).raises
    THEN [raised |-> FALSE,
          result |-> _merge_similar_results(static, _find_similar_with_llm(resp).result)]
    ELSE [raised |-> FALSE, result |-> static]

\* mutant: no try / except around the oracle call
namecast_find_similar_companies_no_except(key, resp) ==
    IF key /\ ~_find_similar_with_llm(resp).raises
    THEN [raised |-> FALSE, result |-> _find_similar_with_llm(resp).result]
    ELSE [raised |-> key, result |-> SimilarCompaniesResult(<<>>, "low")]

\* namecast find_similar_companies: the oracle's result, or no matches
namecast_find_similar_companies(key, resp) ==
    IF key /\ ~_find_similar_with_llm(resp).raises
    THEN [raised |-> FALSE, result |-> _find_similar_with_llm(resp).result]
    ELSE [raised |-> FALSE, result |-> SimilarCompaniesResult(<<>>, "low")]

-----------------------------------------------------------------------------
(* SpecFind: find_similar_companies in either variant, with or without an   *)
(* API key; the call is suspended while the oracle answers                  *)

Variants == {"brandval", "namecast"}

FindNames ==
    { <<"S", "t", "r", "i", "p", "e">>,
      <<"c", "o", "u", "e", "a", "e">>,
      <<"A", "c", "m", "e">> }

\* what the oracle answers to find_similar_companies
\* the oracle's scores come as the oracle writes them: the prompt asks for
\* 0.0-1.0, nothing holds the oracle to it (85 for 85 per cent)
FindOraclePool ==
    OraclePool \cup
        { SimilarCompany(<<"S", "t", "r", "y", "p", "e">>, [num |-> 85, den |-> 1],
                         "payments", "sounds the same") }

FindOracleResponses == OracleResponses(FindOraclePool, MaxOracleLen)

InitFind ==
    /\ variant \in Variants /\ apiKey \in BOOLEAN /\ name \in FindNames
    /\ pc = "call"
    /\ static_result = NoResult /\ llm_response = NoResponse
    /\ similar = NoResult /\ raised = FALSE
    /\ SimIdle /\ ScoreIdle /\ EvalIdle /\ ExtIdle /\ MoreIdle

\* up to the oracle call; without an API key, the whole call
FindSimilarCompanies ==
    /\ pc = "call"
    /\ static_result' =
           IF variant = "brandval" THEN _find_similar_static(name) ELSE NoResult
    /\ IF apiKey
       THEN pc' = "llm" /\ UNCHANGED <<similar, raised, moreVars>>
       ELSE LET out == IF variant = "brandval"
                       THEN brandval_find_similar_companies(static_result', FALSE, NoResponse)
                       ELSE namecast_find_similar_companies(FALSE, NoResponse)
            IN  pc' = "return" /\ similar' = out.result /\ raised' = out.raised
    /\ UNCHANGED <<variant, apiKey, name, llm_response, simVars, scoreVars, evalVars, extVars, moreVars>>

\* the oracle answers and the call returns
OracleAnswers ==
    /\ pc = "llm"
    /\ \E resp \in FindOracleResponses :
        LET out == IF variant = "brandval"
                   THEN brandval_find_similar_companies(static_result, TRUE, resp)
                   ELSE namecast_find_similar_companies(TRUE, resp)
        IN  /\ llm_response' = resp
            /\ similar' = out.result
            /\ raised' = out.raised
    /\ pc' = "return"
    /\ UNCHANGED <<variant, apiKey, name, static_result, simVars, scoreVars, evalVars, extVars, moreVars>>

NextFind == FindSimilarCompanies \/ OracleAnswers

SpecFind == InitFind /\ [][NextFind]_vars

-----------------------------------------------------------------------------
(* SpecMerge: _merge_similar_results called on a result of the static pass *)
(* and a result of the oracle                                              *)

\* longest oracle match list handed to the merge
MaxMergeLen == 3

\* matches the static pass can report: catalog names with scores above 0.5,
\* one of them a company the oracle reports too
StaticPool ==
    { SimilarCompany(<<"S", "t", "r", "i", "p", "e">>, [num |-> 85, den |-> 100],
                     "payments", "phonetically similar"),
      SimilarCompany(<<"S", "t", "r", "a", "v", "a">>, [num |-> 70, den |-> 100],
                     "fitness", "similar prefix"),
      SimilarCompany(<<"S", "p", "o", "t", "i", "f", "y">>, [num |-> 65, den |-> 100],
                     "music", "similar prefix"),
      SimilarCompany(<<"S", "l", "a", "c", "k">>, [num |-> 60, den |-> 100],
                     "productivity", "visually similar"),
      SimilarCompany(<<"S", "h", "o", "p", "i", "f", "y">>, [num |-> 55, den |-> 100],
                     "ecommerce", "similar prefix"),
      SimilarCompany(<<"S", "n", "a", "p">>, [num |-> 52, den |-> 100],
                     "social", "visually similar") }

\* the sequences that list every element of the set S once
ListingsOf(S) ==
    {q \in SeqsOfLen(S, Cardinality(S)) : \A x \in S : \E i \in 1..Len(q) : q[i] = x}

\* what _find_similar_static returns for some name: at most five matches with
\* distinct names, sorted by score, and the risk level of their best score
StaticResults ==
    {SimilarCompaniesResult(sort_by_score(CHOOSE q \in ListingsOf(S) : TRUE),
                            static_confusion_risk(sort_by_score(CHOOSE q \in ListingsOf(S) : TRUE)))
        : S \in {T \in SUBSET StaticPool : Cardinality(T) <= 5}}

\* what _find_similar_with_llm returns when it does not raise
OracleResults ==
    {SimilarCompaniesResult(l, r) : l \in OracleLists(OraclePool, MaxMergeLen),
                                    r \in OracleRisks}

InitMerge ==
    /\ static_arg \in StaticResults /\ llm_arg \in OracleResults
    /\ mergePc = "call" /\ merge_result = NoResult
    /\ SimIdle /\ FindIdle /\ ScoreIdle /\ EvalIdle
    /\ LevIdle /\ DomIdle /\ PronIdle /\ FrontIdle /\ ReportIdle /\ MoreIdle

MergeSimilarResults ==
    /\ mergePc = "call"
    /\ merge_result' = _merge_similar_results(static_arg, llm_arg)
    /\ mergePc' = "return"
    /\ UNCHANGED <<static_arg, llm_arg, coreVars, levVars, domVars, pronVars,
                   frontVars, reportVars, moreVars>>

NextMerge == MergeSimilarResults

SpecMerge == InitMerge /\ [][NextMerge]_vars

-----------------------------------------------------------------------------
(* Scores out of 100 as exact fractions in lowest terms *)

RECURSIVE Gcd(_, _)
Gcd(a, b) == IF b = 0 THEN a ELSE Gcd(b, a % b)

Rat(n, d) ==
    LET g == Gcd(n, d)
    IN  [num |-> n \div g, den |-> d \div g]

RatAdd(x, y) == Rat(x.num * y.den + y.num * x.den, x.den * y.den)

RatMul(x, y) == Rat(x.num * y.num, x.den * y.den)

-----------------------------------------------------------------------------
(* The checks and analyzers of BrandEvaluator *)

DEFAULT_TLDS == <<".com", ".io", ".co", ".ai", ".app">>

DEFAULT_PLATFORMS == <<"twitter", "instagram", "linkedin", "tiktok", "github">>

Range(seq) == {seq[i] : i \in 1..Len(seq)}

\* what the WHOIS service does with one lookup
WhoisOutcomes == {"registered", "free", "error"}

\* whois_lookup: the record of a registered domain; None when the service knows
\* no domain name and None when the lookup raises
whois_lookup(outcome) ==
    IF outcome = "registered" THEN "record" ELSE None

\* mutant: a domain is reported available when a record came back
check_domains_registered(outcomes) ==
    [tld \in Range(DEFAULT_TLDS) |-> whois_lookup(outcomes[tld]) # None]

\* check_domains, given the WHOIS outcome of each TLD's lookup
check_domains(outcomes) ==
    [tld \in Range(DEFAULT_TLDS) |-> whois_lookup(outcomes[tld]) = None]

\* the characters of a TLD
tld_chars(tld) ==
    CASE tld = ".com" -> <<".", "c", "o", "m">>
      [] tld = ".io" -> <<".", "i", "o">>
      [] tld = ".co" -> <<".", "c", "o">>
      [] tld = ".ai" -> <<".", "a", "i">>
      [] tld = ".app" -> <<".", "a", "p", "p">>

\* the domains check_domains looks up, in order: f"{name_lower}{tld}"
lookup_domains(nm) ==
    [i \in 1..Len(DEFAULT_TLDS) |-> lower(nm) \o tld_chars(DEFAULT_TLDS[i])]

\* brandval check_social: a placeholder
brandval_check_social ==
    [platform \in Range(DEFAULT_PLATFORMS) |-> TRUE]

\* the common suffix alternatives of _generate_handle_alternatives
suffix_alternatives(nm) ==
    << nm \o <<"h", "q">>, nm \o <<"a", "p", "p">>, <<"g", "e", "t">> \o nm, <<"t", "r", "y">> \o nm, <<"u", "s", "e">> \o nm,
       nm \o <<"_">>, <<"_">> \o nm, nm \o <<"i", "o">>, nm \o <<"a", "i">>, <<"t", "h", "e">> \o nm,
       nm \o <<"o", "f", "f", "i", "c", "i", "a", "l">> >>

\* "remove duplicates while preserving order", the name itself dropped
RECURSIVE unique_alternatives(_, _, _, _)
unique_alternatives(alternatives, nm, i, unique) ==
    IF i > Len(alternatives) THEN unique
    ELSE IF alternatives[i] \notin Range(unique) /\ alternatives[i] # nm
         THEN unique_alternatives(alternatives, nm, i + 1,
                                  Append(unique, alternatives[i]))
         ELSE unique_alternatives(alternatives, nm, i + 1, unique)

\* _generate_handle_alternatives(name, planned_domain = None)
_generate_handle_alternatives(nm) ==
    LET unique == unique_alternatives(suffix_alternatives(nm), nm, 1, <<>>)
    IN  SubSeq(unique, 1, Min(10, Len(unique)))

SocialHandleResult(platform, exact_available, best_alternative, alternatives_checked) ==
    [platform |-> platform, exact_available |-> exact_available,
     best_alternative |-> best_alternative,
     alternatives_checked |-> alternatives_checked]

\* namecast check_social(name, planned_domain = None): a placeholder that lists
\* the handles it would check
namecast_check_social(nm) ==
    LET alternatives == _generate_handle_alternatives(lower(nm))
    IN  [platform \in Range(DEFAULT_PLATFORMS) |->
            SocialHandleResult(platform, TRUE,
                               IF Len(alternatives) > 0 THEN alternatives[1] ELSE None,
                               <<lower(nm)>> \o alternatives)]

TrademarkResult(risk_level, matches) ==
    [risk_level |-> risk_level, matches |-> matches]

check_trademark == TrademarkResult("low", <<>>)

SyllableVowels == {"a", "e", "i", "o", "u", "y"}

\* mutant: every vowel counts, not every run of vowels
RECURSIVE vowel_runs_every_vowel(_, _, _)
vowel_runs_every_vowel(word, i, prev_was_vowel) ==
    IF i > Len(word) THEN 0
    ELSE (IF word[i] \in SyllableVowels THEN 1 ELSE 0)
             + vowel_runs_every_vowel(word, i + 1, word[i] \in SyllableVowels)

\* the loop of _count_syllables: one per run of vowels
RECURSIVE vowel_runs(_, _, _)
vowel_runs(word, i, prev_was_vowel) ==
    IF i > Len(word) THEN 0
    ELSE LET is_vowel == word[i] \in SyllableVowels
         IN  (IF is_vowel /\ ~prev_was_vowel THEN 1 ELSE 0)
                 + vowel_runs(word, i + 1, is_vowel)

_count_syllables(w) ==
    LET word  == lower(w)
        count == vowel_runs(word, 1, FALSE)
    IN  Max(1, IF Len(word) > 0 /\ word[Len(word)] = "e" /\ count > 1
               THEN count - 1 ELSE count)

difficult_patterns == {<<"x", "w">>, <<"z", "x">>, <<"p", "t", "l">>, <<"t", "c", "h">>, <<"s", "c", "h">>}

unusual == {<<"p", "h">>, <<"g", "h">>, <<"o", "u", "g", "h">>, <<"t", "i", "o", "n">>, <<"s", "i", "o", "n">>, <<"x", "c">>, <<"c", "q">>}

_is_phonetic(nm) == ~\E u \in unusual : contains(lower(nm), u)

PronunciationResult(score, syllables, spelling_difficulty) ==
    [score |-> score, syllables |-> syllables,
     spelling_difficulty |-> spelling_difficulty]

\* mutant: the score is not clamped
analyze_pronunciation_unclamped(nm) ==
    LET syllables == _count_syllables(nm)
        base      == IF syllables <= 2 THEN 90
                     ELSE IF syllables <= 3 THEN 70
                     ELSE IF syllables <= 4 THEN 50
                     ELSE 30
        penalty   == 15 * Cardinality({p \in difficult_patterns : contains(lower(nm), p)})
    IN  PronunciationResult([num |-> base - penalty, den |-> 10], syllables, "easy")

\* analyze_pronunciation; the score, out of 10, as a fraction
analyze_pronunciation(nm) ==
    LET syllables == _count_syllables(nm)
        base      == IF syllables <= 2 THEN 90
                     ELSE IF syllables <= 3 THEN 70
                     ELSE IF syllables <= 4 THEN 50
                     ELSE 30
        penalty   == 15 * Cardinality({p \in difficult_patterns : contains(lower(nm), p)})
        spelling  == IF _is_phonetic(nm) THEN "easy"
                     ELSE IF \E c \in {<<"p", "h">>, <<"g", "h">>, <<"o", "u", "g", "h">>} : contains(lower(nm), c)
                          THEN "hard"
                     ELSE "medium"
    IN  PronunciationResult(Rat(Max(0, Min(100, base - penalty)), 10),
                            syllables, spelling)

languages ==
    <<"spanish", "french", "german", "mandarin", "japanese", "portuguese", "arabic">>

\* problematic[name_lower][lang], None when there is no such entry
problematic(name_lower, lang) ==
    IF name_lower = <<"m", "i", "s", "t">> /\ lang = "german" THEN "manure/dung"
    ELSE IF name_lower = <<"f", "a", "r", "t">> /\ lang = "scandinavian" THEN "speed"
    ELSE IF name_lower = <<"n", "o", "v", "a">> /\ lang = "spanish" THEN "doesn't go (no va)"
    ELSE None

\* mutant: the name is looked up as written, not lower-cased
check_international_as_written(nm) ==
    [lang \in Range(languages) |->
        [has_issue |-> problematic(nm, lang) # None,
         meaning   |-> problematic(nm, lang)]]

check_international(nm) ==
    [lang \in Range(languages) |->
        [has_issue |-> problematic(lower(nm), lang) # None,
         meaning   |-> problematic(lower(nm), lang)]]

PerceptionResult(evokes, industry_association, memorability, mission_alignment) ==
    [evokes |-> evokes, industry_association |-> industry_association,
     memorability |-> memorability, mission_alignment |-> mission_alignment]

\* what the persona analysis does when it is called
PerceptionOutcomes == {"analysis", "raises"}

\* analyze_perception: the persona analysis with an API key, the placeholder
\* without one or when the analysis raises
analyze_perception(m, key, outcome) ==
    IF key /\ outcome = "analysis"
    THEN PerceptionResult("analysis", <<"analysis">>, "analysis", "analysis")
    ELSE PerceptionResult("professional, modern", <<"technology", "business">>,
                          "high", IF m # None THEN "7.0" ELSE None)

-----------------------------------------------------------------------------
(* The scorers *)

\* mutant: each other TLD adds 50, the division by their number forgotten
_calc_domain_score_sum(domains) ==
    IF DOMAIN domains = {} THEN Rat(0, 1)
    ELSE LET com == IF ".com" \in DOMAIN domains /\ domains[".com"] THEN 50 ELSE 0
             other_tlds == DOMAIN domains \ {".com"}
             available_others == Cardinality({tld \in other_tlds : domains[tld]})
         IN  Rat(com + 50 * available_others, 1)

\* mutant: every TLD weighs the same
_calc_domain_score_even(domains) ==
    IF DOMAIN domains = {} THEN Rat(0, 1)
    ELSE Rat(100 * Cardinality({tld \in DOMAIN domains : domains[tld]}),
             Cardinality(DOMAIN domains))

_calc_domain_score(domains) ==
    IF DOMAIN domains = {} THEN Rat(0, 1)
    ELSE LET com == IF ".com" \in DOMAIN domains /\ domains[".com"] THEN 50 ELSE 0
             other_tlds == DOMAIN domains \ {".com"}
             available_others == Cardinality({tld \in other_tlds : domains[tld]})
         IN  IF other_tlds # {}
             THEN RatAdd(Rat(com, 1),
                         RatMul(Rat(available_others, Cardinality(other_tlds)),
                                Rat(50, 1)))
             ELSE Rat(com, 1)

brandval_calc_social_score(social) ==
    IF DOMAIN social = {} THEN Rat(0, 1)
    ELSE RatMul(Rat(Cardinality({p \in DOMAIN social : social[p]}),
                    Cardinality(DOMAIN social)),
                Rat(100, 1))

namecast_calc_social_score(social) ==
    IF DOMAIN social = {} THEN Rat(0, 1)
    ELSE LET exact == Cardinality({p \in DOMAIN social : social[p].exact_available})
             alt   == Cardinality({p \in DOMAIN social :
                          /\ ~social[p].exact_available
                          /\ social[p].best_alternative # None})
         IN  Rat(100 * exact + 70 * alt, Cardinality(DOMAIN social))

_calc_trademark_score(trademark) ==
    IF trademark.risk_level = "low" THEN Rat(100, 1)
    ELSE IF trademark.risk_level = "medium" THEN Rat(50, 1)
    ELSE Rat(10, 1)

_calc_international_score(international) ==
    IF DOMAIN international = {} THEN Rat(100, 1)
    ELSE LET issues == Cardinality({l \in DOMAIN international :
                                        international[l].has_issue})
         IN  Rat(Max(0, 100 - issues * 20), 1)

\* mutant: the risk label is looked at before the match list
_calc_similar_companies_score_risk_first(sim) ==
    IF sim.confusion_risk = "high" THEN Rat(20, 1)
    ELSE IF sim.confusion_risk = "medium" THEN Rat(60, 1)
    ELSE IF Len(sim.matches) = 0 THEN Rat(100, 1)
    ELSE Rat(85, 1)

_calc_similar_companies_score(sim) ==
    IF Len(sim.matches) = 0 THEN Rat(100, 1)
    ELSE IF sim.confusion_risk = "high" THEN Rat(20, 1)
    ELSE IF sim.confusion_risk = "medium" THEN Rat(60, 1)
    ELSE Rat(85, 1)

-----------------------------------------------------------------------------
(* SpecScore: _calc_domain_score called on every map from a set of the      *)
(* default TLDs to available / taken, the empty map included                *)

DomainMaps == UNION {[S -> BOOLEAN] : S \in SUBSET Range(DEFAULT_TLDS)}

InitScore ==
    /\ domainsArg \in DomainMaps
    /\ scorePc = "call" /\ domain_score = NoScore
    /\ SimIdle /\ FindIdle /\ EvalIdle /\ ExtIdle /\ MoreIdle

CalcDomainScore ==
    /\ scorePc = "call"
    /\ domain_score' = _calc_domain_score(domainsArg)
    /\ scorePc' = "return"
    /\ UNCHANGED <<domainsArg, simVars, findVars, evalVars, extVars, moreVars>>

NextScore == CalcDomainScore

SpecScore == InitScore /\ [][NextScore]_vars

-----------------------------------------------------------------------------
(* evaluate *)

\* mutant: the weights of the social and the pronunciation score swapped
overall_score_swapped(domain, social, trademark, pronunciation, international, similar_companies) ==
    RatAdd(RatMul(domain, Rat(20, 100)),
    RatAdd(RatMul(social, Rat(15, 100)),
    RatAdd(RatMul(trademark, Rat(20, 100)),
    RatAdd(RatMul(pronunciation, Rat(10, 100)),
    RatAdd(RatMul(international, Rat(15, 100)),
           RatMul(similar_companies, Rat(20, 100)))))))

\* the weighted overall score
overall_score(domain, social, trademark, pronunciation, international, similar_companies) ==
    RatAdd(RatMul(domain, Rat(20, 100)),
    RatAdd(RatMul(social, Rat(10, 100)),
    RatAdd(RatMul(trademark, Rat(20, 100)),
    RatAdd(RatMul(pronunciation, Rat(15, 100)),
    RatAdd(RatMul(international, Rat(15, 100)),
           RatMul(similar_companies, Rat(20, 100)))))))

\* evaluate, its first six calls: the checks that come before
\* find_similar_companies
evaluate_checks(v, nm, m, key, outcomes, outcome) ==
    [domains       |-> check_domains(outcomes),
     social        |-> IF v = "brandval" THEN brandval_check_social
                       ELSE namecast_check_social(nm),
     trademark     |-> check_trademark,
     pronunciation |-> analyze_pronunciation(nm),
     international |-> check_international(nm),
     perception    |-> analyze_perception(m, key, outcome)]

\* evaluate, from the return of find_similar_companies on: the scores and the
\* EvaluationResult
evaluate(v, nm, c, similar_companies) ==
    LET domain_sc        == _calc_domain_score(c.domains)
        social_sc        == IF v = "brandval" THEN brandval_calc_social_score(c.social)
                            ELSE namecast_calc_social_score(c.social)
        trademark_sc     == _calc_trademark_score(c.trademark)
        pronunciation_sc == RatMul(c.pronunciation.score, Rat(10, 1))
        international_sc == _calc_international_score(c.international)
        similar_sc       == _calc_similar_companies_score(similar_companies)
    IN  [name |-> nm,
         overall_score |-> overall_score(domain_sc, social_sc, trademark_sc,
                                         pronunciation_sc, international_sc, similar_sc),
         domain_score |-> domain_sc,
         social_score |-> social_sc,
         trademark_score |-> trademark_sc,
         pronunciation_score |-> pronunciation_sc,
         international_score |-> international_sc,
         similar_companies_score |-> similar_sc,
         domains |-> c.domains,
         social |-> c.social,
         trademark |-> c.trademark,
         pronunciation |-> c.pronunciation,
         international |-> c.international,
         perception |-> c.perception,
         similar_companies |-> similar_companies]

-----------------------------------------------------------------------------
(* SpecEval: evaluate(name, mission) in either variant, with or without an  *)
(* API key; every WHOIS lookup answers, finds nothing or fails; the call is *)
(* suspended while the similar-company oracle answers                       *)

\* longest match list the oracle answers with during an evaluation
MaxEvalOracleLen == 1

EvalNames ==
    { <<"S", "t", "r", "i", "p", "e">>,
      <<"M", "i", "s", "t">>,
      <<"S", "c", "h", "n", "i", "t", "c", "h", "i", "f", "y">> }

Missions == {None, "mission"}

\* what the oracle proposes during an evaluation
EvalOraclePool ==
    { SimilarCompany(<<"S", "T", "R", "I", "P", "E">>, [num |-> 95, den |-> 100],
                     "payments", "phonetically similar") }

\* what the similar-company oracle answers during an evaluation
EvalOracleResponses == OracleResponses(EvalOraclePool, MaxEvalOracleLen)

InitEval ==
    /\ variant \in Variants /\ apiKey \in BOOLEAN /\ name \in EvalNames
    /\ mission \in Missions
    /\ evPc = "call" /\ whois = <<>> /\ checks = <<>> /\ evaluation = <<>>
    /\ pc = "idle"
    /\ static_result = NoResult /\ llm_response = NoResponse
    /\ similar = NoResult /\ raised = FALSE
    /\ SimIdle /\ ScoreIdle /\ ExtIdle /\ MoreIdle

\* evaluate up to the call of the similar-company oracle; without an API key,
\* the whole of evaluate
Evaluate ==
    /\ evPc = "call"
    /\ static_result' =
           IF variant = "brandval" THEN _find_similar_static(name) ELSE NoResult
    /\ \E outcomes \in [Range(DEFAULT_TLDS) -> WhoisOutcomes] :
       \E outcome \in IF apiKey THEN PerceptionOutcomes ELSE {"not called"} :
        LET c == evaluate_checks(variant, name, mission, apiKey, outcomes, outcome)
        IN  /\ whois' = outcomes
            /\ IF apiKey
               THEN /\ evPc' = "llm" /\ checks' = c
                    /\ UNCHANGED <<similar, raised, evaluation, moreVars>>
               ELSE LET out == IF variant = "brandval"
                               THEN brandval_find_similar_companies(static_result', FALSE, NoResponse)
                               ELSE namecast_find_similar_companies(FALSE, NoResponse)
                    IN  /\ evPc' = "return" /\ checks' = <<>>
                        /\ similar' = out.result /\ raised' = out.raised
                        /\ evaluation' = evaluate(variant, name, c, out.result)
    /\ UNCHANGED <<variant, apiKey, name, pc, llm_response, mission, simVars, scoreVars, extVars, moreVars>>

\* the similar-company oracle answers and evaluate returns; its local
\* variables are gone, the EvaluationResult holds what they held
EvaluateOracleAnswers ==
    /\ evPc = "llm"
    /\ \E resp \in EvalOracleResponses :
        LET out == IF variant = "brandval"
                   THEN brandval_find_similar_companies(static_result, TRUE, resp)
                   ELSE namecast_find_similar_companies(TRUE, resp)
        IN  /\ llm_response' = resp
            /\ similar' = out.result /\ raised' = out.raised
            /\ evaluation' = evaluate(variant, name, checks, out.result)
    /\ evPc' = "return"
    /\ checks' = <<>>
    /\ UNCHANGED <<variant, apiKey, name, pc, static_result, mission, whois,
                   simVars, scoreVars, extVars, moreVars>>

NextEval == Evaluate \/ EvaluateOracleAnswers

SpecEval == InitEval /\ [][NextEval]_vars

\* every collaborator called delivers an outcome (an answer or an exception),
\* so a call of evaluate that can go on does go on
SpecEvalLive == SpecEval /\ WF_vars(NextEval)

-----------------------------------------------------------------------------
(* SpecReport: evaluate, then to_markdown() of the EvaluationResult.  The   *)
(* report is the list of its lines, a line the list of its parts: the       *)
(* literal text of the f-string and the values set into it.                 *)

\* round(x) to the nearest integer, a tie to the even one
round_half_even(x) ==
    LET q == x.num \div x.den
        r == x.num % x.den
    IN  IF 2 * r < x.den THEN q
        ELSE IF 2 * r > x.den THEN q + 1
        ELSE IF q % 2 = 0 THEN q ELSE q + 1

\* f"{x:.0f}"
format_0f(x) == round_half_even(x)

\* f"{x:.1f}": the integer part and the digit after the point
format_1f(x) ==
    LET tenths == round_half_even([num |-> 10 * x.num, den |-> x.den])
    IN  <<tenths \div 10, ".", tenths % 10>>

\* str.upper() of a risk label
upper_label(label) ==
    CASE label = "low" -> "LOW"
      [] label = "medium" -> "MEDIUM"
      [] label = "high" -> "HIGH"
      [] label = "critical" -> "CRITICAL"

domain_rows(domains) ==
    [i \in 1..Len(DEFAULT_TLDS) |->
        <<"|", DEFAULT_TLDS[i], "|",
          IF domains[DEFAULT_TLDS[i]] THEN "Available" ELSE "Taken", "|">>]

\* brandval: a platform maps to a boolean; namecast: to a SocialHandleResult
social_rows(v, social) ==
    [i \in 1..Len(DEFAULT_PLATFORMS) |->
        LET result == social[DEFAULT_PLATFORMS[i]]
        IN  IF v = "brandval"
            THEN <<"|", DEFAULT_PLATFORMS[i], "|",
                   IF result THEN "Available" ELSE "Taken", "|">>
            ELSE <<"|", DEFAULT_PLATFORMS[i], "|",
                   IF result.exact_available THEN "yes" ELSE "no", "|",
                   IF result.best_alternative # None THEN result.best_alternative
                   ELSE "-", "|">>]

company_items(matches) ==
    [i \in 1..Len(matches) |->
        <<"-", matches[i].name, matches[i].industry, matches[i].reason>>]

\* mutant: the section is written whether or not there are matches
similar_companies_section_unguarded(similar_companies) ==
    << <<"">>,
       <<"###", "Similar Companies", upper_label(similar_companies.confusion_risk),
         "RISK">>,
       <<"">> >> \o company_items(similar_companies.matches)

\* the section on similar companies: written when there are matches
similar_companies_section(similar_companies) ==
    IF Len(similar_companies.matches) > 0
    THEN << <<"">>,
            <<"###", "Similar Companies", upper_label(similar_companies.confusion_risk),
              "RISK">>,
            <<"">> >> \o company_items(similar_companies.matches)
    ELSE <<>>

\* EvaluationResult.to_markdown(); evaluate always sets trademark,
\* pronunciation and similar_companies
to_markdown(v, r) ==
    << <<"##", "Brand Evaluation", r.name>>,
       <<"">>,
       <<"###", "Overall Score", format_0f(r.overall_score), "/100">>,
       <<"">>,
       <<"###", "Domain Availability">>,
       <<"| TLD | Status |">>,
       <<"|-----|--------|">> >>
    \o domain_rows(r.domains)
    \o << <<"">>,
          <<"###", "Social Handles">>,
          IF v = "brandval" THEN <<"| Platform | Status |">>
          ELSE <<"| Platform | @exact | Best Alternative |">>,
          IF v = "brandval" THEN <<"|----------|--------|">>
          ELSE <<"|----------|--------|------------------|">> >>
    \o social_rows(v, r.social)
    \o << <<"">>,
          <<"###", "Trademark Risk", upper_label(r.trademark.risk_level)>> >>
    \o << <<"">>,
          <<"###", "Pronunciation Score", format_1f(r.pronunciation.score), "/10">>,
          <<"- Syllables:", r.pronunciation.syllables>>,
          <<"- Spelling:", r.pronunciation.spelling_difficulty>> >>
    \o similar_companies_section(r.similar_companies)

ToMarkdown ==
    /\ evPc = "return" /\ report = None
    /\ report' = to_markdown(variant, evaluation)
    /\ UNCHANGED <<coreVars, mergeVars, levVars, domVars, pronVars, frontVars, moreVars>>

NextReport == NextEval \/ ToMarkdown

SpecReport == InitEval /\ [][NextReport]_vars

-----------------------------------------------------------------------------
(* SpecDomains: check_domains called on a name; whois[tld] is what the      *)
(* WHOIS service does with the lookup of the name's domain under that TLD  *)

DomainNames ==
    { <<"S", "t", "r", "i", "p", "e">>,
      <<"M", "i", "s", "t">>,
      <<"A", "C", "M", "E">>,
      <<"z", "o", "o", "m">> }

InitDomains ==
    /\ name \in DomainNames
    /\ whois \in [Range(DEFAULT_TLDS) -> WhoisOutcomes]
    /\ domPc = "call" /\ lookups = <<>> /\ domain_map = <<>>
    /\ variant = "namecast" /\ apiKey = FALSE /\ pc = "idle"
    /\ static_result = NoResult /\ llm_response = NoResponse
    /\ similar = NoResult /\ raised = FALSE
    /\ evPc = "idle" /\ mission = None /\ checks = <<>> /\ evaluation = <<>>
    /\ SimIdle /\ ScoreIdle
    /\ MergeIdle /\ LevIdle /\ PronIdle /\ FrontIdle /\ ReportIdle /\ MoreIdle

CheckDomains ==
    /\ domPc = "call"
    /\ lookups' = lookup_domains(name)
    /\ domain_map' = check_domains(whois)
    /\ domPc' = "return"
    /\ UNCHANGED <<coreVars, mergeVars, levVars, pronVars, frontVars, reportVars, moreVars>>

NextDomains == CheckDomains

SpecDomains == InitDomains /\ [][NextDomains]_vars

-----------------------------------------------------------------------------
(* SpecPron: analyze_pronunciation called on a name *)

\* most pieces a generated name is put together from
MaxPieces == 3

\* the pieces: vowels, consonants and the difficult clusters
Pieces ==
    { <<"a">>, <<"k">>, <<"e">>, <<"t", "c", "h">>, <<"S", "c", "h">>,
      <<"x", "w">>, <<"z", "x">>, <<"p", "t", "l">> }

RECURSIVE NamesOfPieces(_)
NamesOfPieces(n) ==
    IF n = 0 THEN {<<>>}
    ELSE {nm \o piece : nm \in NamesOfPieces(n - 1), piece \in Pieces}

PronSamples ==
    { <<"S", "t", "r", "i", "p", "e">>,
      <<"S", "p", "o", "t", "i", "f", "y">>,
      <<"A", "p", "p", "l", "E">>,
      <<"Y", "o", "y", "o">>,
      <<"G", "o", "o", "g", "l", "e">>,
      <<"L", "u", "m", "a">>,
      <<"X", "w", "y", "z", "p", "t", "l", "k">>,
      <<"b", "a", "n", "a", "n", "a">>,
      <<"a", "v", "o", "c", "a", "d", "o">>,
      <<"a", "b", "r", "a", "c", "a", "d", "a", "b", "r", "a">>,
      <<"S", "c", "h", "n", "i", "t", "c", "h", "i", "f", "y">>,
      <<"t", "c", "h", "a", "t", "c", "h", "a", "t", "c", "h", "a">>,
      <<"x", "w", "a", "z", "x", "a", "p", "t", "l", "a", "t", "c", "h", "a",
        "s", "c", "h", "a">>,
      <<"x", "w", "a", "z", "x", "a", "p", "t", "l", "a", "k", "a", "k", "a">> }

PronNames == UNION {NamesOfPieces(n) : n \in 0..MaxPieces} \cup PronSamples

InitPron ==
    /\ name \in PronNames
    /\ pronPc = "call" /\ pron_result = <<>>
    /\ variant = "namecast" /\ apiKey = FALSE /\ pc = "idle"
    /\ static_result = NoResult /\ llm_response = NoResponse
    /\ similar = NoResult /\ raised = FALSE
    /\ SimIdle /\ ScoreIdle /\ EvalIdle
    /\ MergeIdle /\ LevIdle /\ DomIdle /\ FrontIdle /\ ReportIdle /\ MoreIdle

AnalyzePronunciation ==
    /\ pronPc = "call"
    /\ pron_result' = analyze_pronunciation(name)
    /\ pronPc' = "return"
    /\ UNCHANGED <<coreVars, mergeVars, levVars, domVars, frontVars, reportVars, moreVars>>

NextPron == AnalyzePronunciation

SpecPron == InitPron /\ [][NextPron]_vars

-----------------------------------------------------------------------------
(* SpecIntl: check_international called on a name, then                     *)
(* _calc_international_score on its result, as evaluate does                *)

\* every way of writing the word in upper- and lower-case letters
CaseVariants(word) ==
    LET letters == Range(word) \cup {upper_char(c) : c \in Range(word)}
    IN  {s \in [1..Len(word) -> letters] : lower(s) = word}

IntlWords ==
    { <<"m", "i", "s", "t">>, <<"f", "a", "r", "t">>, <<"n", "o", "v", "a">> }

IntlNames ==
    Names \cup {<<"m", "i", "s">>, <<"m", "i", "s", "t", "s">>, <<"n", "o", "v", "a", "s">>}

InitIntl ==
    /\ name \in IntlNames \cup UNION {CaseVariants(w) : w \in IntlWords}
    /\ intlPc = "call" /\ intl_result = <<>> /\ intl_score = NoScore
    /\ variant = "namecast" /\ apiKey = FALSE /\ pc = "idle"
    /\ static_result = NoResult /\ llm_response = NoResponse
    /\ similar = NoResult /\ raised = FALSE
    /\ SimIdle /\ ScoreIdle /\ EvalIdle /\ ExtIdle /\ ReasonIdle /\ PhonIdle /\ BatchIdle /\ StreamIdle

CheckInternational ==
    /\ intlPc = "call"
    /\ intl_result' = check_international(name)
    /\ intlPc' = "checked"
    /\ UNCHANGED <<intl_score, coreVars, extVars, reasonVars, phonVars, batchVars, streamVars>>

CalcInternationalScore ==
    /\ intlPc = "checked"
    /\ intl_score' = _calc_international_score(intl_result)
    /\ intlPc' = "return"
    /\ UNCHANGED <<intl_result, coreVars, extVars, reasonVars, phonVars, batchVars, streamVars>>

NextIntl == CheckInternational \/ CalcInternationalScore

SpecIntl == InitIntl /\ [][NextIntl]_vars

-----------------------------------------------------------------------------
(* SpecReason: _get_similarity_reason called on a pair of lower-cased names, *)
(* as _find_similar_static calls it on name.lower() and a catalog key        *)

ReasonNames == {lower(nm) : nm \in Names}

InitReason ==
    /\ name1 \in ReasonNames /\ name2 \in ReasonNames
    /\ reasonPc = "call" /\ reason_code = None
    /\ simPc = "idle" /\ similarity = NoScore
    /\ FindIdle /\ ScoreIdle /\ EvalIdle /\ ExtIdle /\ IntlIdle /\ PhonIdle /\ BatchIdle /\ StreamIdle

GetSimilarityReason ==
    /\ reasonPc = "call"
    /\ reason_code' = _get_similarity_reason(name1, name2)
    /\ reasonPc' = "return"
    /\ UNCHANGED <<coreVars, extVars, intlVars, phonVars, batchVars, streamVars>>

NextReason == GetSimilarityReason

SpecReason == InitReason /\ [][NextReason]_vars

-----------------------------------------------------------------------------
(* SpecPhonetic: _simplify_phonetic called on a string *)

\* longest generated string over PhoneticLetters
MaxKeyLen == 3

\* the letters of the replacement table, and a capital
PhoneticLetters ==
    {"p", "h", "c", "k", "g", "n", "w", "r", "e", "a", "o", "u", "i", "y", "E"}

RECURSIVE PhoneticStrs(_)
PhoneticStrs(n) ==
    IF n = 0 THEN {<<>>}
    ELSE PhoneticStrs(n - 1)
             \cup {Append(s, c) : s \in PhoneticStrs(n - 1), c \in PhoneticLetters}

PhoneticSamples ==
    { <<"P", "h", "o", "e", "n", "i", "x">>,
      <<"K", "n", "i", "g", "h", "t">>,
      <<"w", "h", "e", "e", "l", "i", "e">>,
      <<"S", "t", "r", "i", "p", "e", "y">>,
      <<"e", "e", "e", "y">>,
      <<"o", "o", "o", "u">> }

InitPhonetic ==
    /\ name \in PhoneticStrs(MaxKeyLen) \cup PhoneticSamples
    /\ phonPc = "call" /\ phonetic_key = None
    /\ variant = "brandval" /\ apiKey = FALSE /\ pc = "idle"
    /\ static_result = NoResult /\ llm_response = NoResponse
    /\ similar = NoResult /\ raised = FALSE
    /\ SimIdle /\ ScoreIdle /\ EvalIdle /\ ExtIdle /\ IntlIdle /\ ReasonIdle /\ BatchIdle /\ StreamIdle

SimplifyPhonetic ==
    /\ phonPc = "call"
    /\ phonetic_key' = _simplify_phonetic(name)
    /\ phonPc' = "return"
    /\ UNCHANGED <<coreVars, extVars, intlVars, reasonVars, batchVars, streamVars>>

NextPhonetic == SimplifyPhonetic

SpecPhonetic == InitPhonetic /\ [][NextPhonetic]_vars

-----------------------------------------------------------------------------
(* SpecFront: one request at a front end: the HTTP API of namecast, the     *)
(* HTTP API of brandeval, or the command line                               *)

\* most names in one request
MaxNames == 3

FrontEnds == {"namecast_api", "brandeval_api", "cli"}

\* /evaluate and /compare; on the command line, without and with --compare
Routes == {"evaluate", "compare"}

FrontNames ==
    { <<"A">>,
      <<"M", "i", "s", "t">>,
      <<"A", "c", "m", "e">> }

\* what the WHOIS service does during one call of evaluate
FrontWhois ==
    { [tld \in Range(DEFAULT_TLDS) |-> "free"],
      [tld \in Range(DEFAULT_TLDS) |-> "registered"] }

\* the evaluator a front end imports
front_variant(fe) == IF fe = "brandeval_api" THEN "brandval" ELSE "namecast"

\* evaluator.evaluate(name, mission) at a front end, without mission and
\* without API key, given the WHOIS outcomes during the call
front_evaluate(fe, nm, outcomes) ==
    LET v == front_variant(fe)
        similar_companies ==
            IF v = "brandval"
            THEN brandval_find_similar_companies(_find_similar_static(nm), FALSE,
                                                 NoResponse).result
            ELSE namecast_find_similar_companies(FALSE, NoResponse).result
    IN  evaluate(v, nm, evaluate_checks(v, nm, None, FALSE, outcomes, "not called"),
                 similar_companies)

\* every evaluation a request can lead to
FrontEvaluations ==
    [fe \in FrontEnds, nm \in FrontNames, outcomes \in FrontWhois |->
        front_evaluate(fe, nm, outcomes)]

\* [evaluator.evaluate(name, mission) for name in names]
evaluate_all(fe, names, env) ==
    [i \in 1..Len(names) |-> FrontEvaluations[fe, names[i], env[i]]]

\* mutant: of the results with the highest overall score, the last
max_by_overall_score_last(results) ==
    results[CHOOSE i \in 1..Len(results) :
                /\ \A j \in 1..Len(results) :
                       ScoreGE(results[i].overall_score, results[j].overall_score)
                /\ \A j \in (i + 1)..Len(results) :
                       ScoreGT(results[i].overall_score, results[j].overall_score)]

\* max(results, key=lambda r: r.overall_score): of the results with the
\* highest overall score, the first
max_by_overall_score(results) ==
    results[CHOOSE i \in 1..Len(results) :
                /\ \A j \in 1..Len(results) :
                       ScoreGE(results[i].overall_score, results[j].overall_score)
                /\ \A j \in 1..(i - 1) :
                       ScoreGT(results[i].overall_score, results[j].overall_score)]

Response(status, results, winner, winner_score) ==
    [status |-> status, results |-> results, winner |-> winner,
     winner_score |-> winner_score]

Rejected(status) ==
    [response |-> Response(status, <<>>, None, None), evaluated |-> <<>>]

\* check_password raises: a password is configured and the request's differs
password_rejected(fe, auth) == fe = "namecast_api" /\ ~auth

\* POST /evaluate
api_evaluate(fe, auth, nm, env) ==
    IF password_rejected(fe, auth) THEN Rejected("401")
    ELSE IF Len(nm) < 2 THEN Rejected("400")
    ELSE [response |-> Response("200", evaluate_all(fe, <<nm>>, env), None, None),
          evaluated |-> <<nm>>]

\* POST /compare
api_compare(fe, auth, names, env) ==
    IF password_rejected(fe, auth) THEN Rejected("401")
    ELSE IF Len(names) < 2 THEN Rejected("400")
    ELSE LET results == evaluate_all(fe, names, env)
             winner == max_by_overall_score(results)
         IN  [response |-> Response("200", results, winner.name, winner.overall_score),
              evaluated |-> names]

\* the command line: what is printed and the exit status
cli_main(names, compare, json, env) ==
    IF Len(names) = 0 THEN Rejected("usage error")
    ELSE LET results == evaluate_all("cli", names, env)
         IN  IF compare /\ Len(names) > 1 /\ ~json
             THEN LET winner == max_by_overall_score(results)
                  IN  [response |-> Response("exit 0", results, winner.name,
                                             winner.overall_score),
                       evaluated |-> names]
             ELSE [response |-> Response("exit 0", results, None, None),
                   evaluated |-> names]

FrontRequests ==
    UNION {SeqsOfLen(FrontNames, k) : k \in 0..MaxNames}

InitFront ==
    /\ frontend \in FrontEnds /\ route \in Routes
    /\ authorized \in IF frontend = "namecast_api" THEN BOOLEAN ELSE {TRUE}
    /\ output_json \in IF frontend = "cli" THEN BOOLEAN ELSE {TRUE}
    /\ request_names \in IF frontend # "cli" /\ route = "evaluate"
                         THEN {<<nm>> : nm \in FrontNames \cup {<<>>}}
                         ELSE FrontRequests
    /\ frontPc = "request" /\ response = <<>> /\ evaluated = <<>>
    /\ SimIdle /\ FindIdle /\ ScoreIdle /\ EvalIdle
    /\ MergeIdle /\ LevIdle /\ DomIdle /\ PronIdle /\ ReportIdle /\ MoreIdle

Respond(out) ==
    /\ response' = out.response
    /\ evaluated' = out.evaluated
    /\ frontPc' = "response"
    /\ UNCHANGED <<frontend, route, authorized, output_json, request_names,
                   coreVars, mergeVars, levVars, domVars, pronVars, reportVars, moreVars>>

ApiEvaluate ==
    /\ frontPc = "request" /\ frontend # "cli" /\ route = "evaluate"
    /\ \E env \in SeqsOfLen(FrontWhois, 1) :
           Respond(api_evaluate(frontend, authorized, request_names[1], env))

ApiCompare ==
    /\ frontPc = "request" /\ frontend # "cli" /\ route = "compare"
    /\ \E env \in SeqsOfLen(FrontWhois, Len(request_names)) :
           Respond(api_compare(frontend, authorized, request_names, env))

CliMain ==
    /\ frontPc = "request" /\ frontend = "cli"
    /\ \E env \in SeqsOfLen(FrontWhois, Len(request_names)) :
           Respond(cli_main(request_names, route = "compare", output_json, env))

NextFront == ApiEvaluate \/ ApiCompare \/ CliMain

SpecFront == InitFront /\ [][NextFront]_vars

-----------------------------------------------------------------------------
(* SpecBatch: the names of a batch are evaluated by calls of                *)
(* evaluator.evaluate that run at the same time on the module-level         *)
(* BrandEvaluator of the HTTP API (namecast), their steps interleaved in    *)
(* any order; the comparison then names the winner.  A call is cut in two   *)
(* at find_similar_companies.  The collaborators answer by name.            *)

\* most names in a batch
MaxBatch == 2

\* what the similar-company oracle answers for a name of a batch
BatchOracleResponses ==
    { r \in EvalOracleResponses :
        \/ r.kind = "api_error"
        \/ r.kind = "object" /\ r.has_matches /\ Len(r.matches) = 1
             /\ r.has_risk /\ r.confusion_risk = "high" }

\* the names of the calls in flight
Batches == UNION {SeqsOfLen(FrontNames, k) : k \in 2..MaxBatch}

\* mutant: evaluate keeps the results of its checks on the evaluator, which
\* all the calls share
keep_checks_on_evaluator(all_checks, i, c) == [j \in DOMAIN all_checks |-> c]

\* the local variables of evaluate belong to the call that assigns them
keep_checks(all_checks, i, c) == [all_checks EXCEPT ![i] = c]

InitBatch ==
    /\ batch_names \in Batches
    /\ whois_of \in [FrontNames -> FrontWhois]
    /\ apiKey \in BOOLEAN
    /\ oracle_of \in IF apiKey THEN [FrontNames -> BatchOracleResponses]
                               ELSE {[nm \in FrontNames |-> NoResponse]}
    /\ batch_pc = [i \in 1..Len(batch_names) |-> "call"]
    /\ batch_checks = [i \in 1..Len(batch_names) |-> <<>>]
    /\ batch_results = [i \in 1..Len(batch_names) |-> <<>>]
    /\ batch_winner = None
    /\ variant = "namecast" /\ name = <<>> /\ pc = "idle"
    /\ static_result = NoResult /\ llm_response = NoResponse
    /\ similar = NoResult /\ raised = FALSE
    /\ SimIdle /\ ScoreIdle /\ EvalIdle /\ ExtIdle
    /\ IntlIdle /\ ReasonIdle /\ PhonIdle /\ StreamIdle

\* call i of evaluate runs its checks, up to find_similar_companies
BatchChecks(i) ==
    /\ batch_pc[i] = "call"
    /\ batch_checks' =
           keep_checks(batch_checks, i,
                       evaluate_checks(variant, batch_names[i], None, apiKey,
                                       whois_of[batch_names[i]],
                                       IF apiKey THEN "raises" ELSE "not called"))
    /\ batch_pc' = [batch_pc EXCEPT ![i] = "checked"]
    /\ UNCHANGED <<batch_names, whois_of, oracle_of, batch_results, batch_winner,
                   coreVars, extVars, intlVars, reasonVars, phonVars, streamVars>>

\* call i of evaluate goes on from find_similar_companies and returns
BatchReturn(i) ==
    /\ batch_pc[i] = "checked"
    /\ batch_results' =
           [batch_results EXCEPT ![i] =
               evaluate(variant, batch_names[i], batch_checks[i],
                        namecast_find_similar_companies(
                            apiKey, oracle_of[batch_names[i]]).result)]
    /\ batch_pc' = [batch_pc EXCEPT ![i] = "return"]
    /\ UNCHANGED <<batch_names, whois_of, oracle_of, batch_checks, batch_winner,
                   coreVars, extVars, intlVars, reasonVars, phonVars, streamVars>>

\* winner = max(results, key=lambda r: r.overall_score), once the list of
\* results is complete
SelectWinner ==
    /\ batch_winner = None
    /\ \A i \in 1..Len(batch_names) : batch_pc[i] = "return"
    /\ batch_winner' = max_by_overall_score(batch_results).name
    /\ UNCHANGED <<batch_names, whois_of, oracle_of, batch_pc, batch_checks,
                   batch_results, coreVars, extVars, intlVars, reasonVars, phonVars, streamVars>>

NextBatch ==
    \/ \E i \in 1..Len(batch_names) : BatchChecks(i)
    \/ \E i \in 1..Len(batch_names) : BatchReturn(i)
    \/ SelectWinner

SpecBatch == InitBatch /\ [][NextBatch]_vars

-----------------------------------------------------------------------------
(* SpecStream: event_stream(), the generator behind POST /workflow/stream, *)
(* run to its end; name generation, the quick domain check and evaluate    *)
(* are collaborators that return what they like (evaluate may raise)       *)

\* most names in request.name_ideas, and most names _generate_names returns
MaxIdeas == 2

\* names a user sends
UserNames == { <<"A", "b">>, <<" ", "a", "b", " ">> }

\* names _generate_names returns
GeneratedNames == { <<"a", "B">>, <<"C", "d">> }

\* request.max_to_evaluate: any int
MaxToEvaluateValues == {-1, 0, 1, 2}

\* what quick_domain_check answers
DomainAnswers ==
    { [tld \in {".com", ".ai", ".io"} |-> FALSE],
      [tld \in {".com", ".ai", ".io"} |-> tld = ".com"],
      [tld \in {".com", ".ai", ".io"} |-> tld = ".io"] }

\* what evaluator.evaluate does: it raises, or returns an EvaluationResult
\* (of which the stream reads overall_score)
EvaluateOutcomes ==
    { [raises |-> TRUE, overall_score |-> 0],
      [raises |-> FALSE, overall_score |-> 40],
      [raises |-> FALSE, overall_score |-> 70] }

\* str.strip()
RECURSIVE strip(_)
strip(s) ==
    IF s = <<>> THEN s
    ELSE IF Head(s) = " " THEN strip(Tail(s))
    ELSE IF s[Len(s)] = " " THEN strip(SubSeq(s, 1, Len(s) - 1))
    ELSE s

\* NameCandidate(name=..., source=...): the other fields at their defaults
NameCandidate(nm, source) ==
    [name |-> nm, source |-> source, domains_available |-> <<>>,
     passed_domain_filter |-> FALSE, rejection_reason |-> None,
     evaluation |-> <<>>]

\* send_event(event_type, data)
send_event(event_type, data) == [type |-> event_type, data |-> data]

\* the loop over generated_names: a name is added unless a candidate has it,
\* letter case aside
RECURSIVE add_generated(_, _)
add_generated(candidates, generated_names) ==
    IF generated_names = <<>> THEN candidates
    ELSE LET nm == Head(generated_names)
         IN  add_generated(
                 IF \E k \in 1..Len(candidates) : lower(candidates[k].name) = lower(nm)
                 THEN candidates
                 ELSE Append(candidates, NameCandidate(nm, "generated")),
                 Tail(generated_names))

\* the sort key of a viable candidate (k indexes all_candidates)
sort_key(candidates, k) ==
    <<IF candidates[k].source = "user" THEN 0 ELSE 1,
      IF candidates[k].domains_available[".com"] THEN 0 ELSE 1>>

\* viable_candidates.sort(key=...): stable
sort_viable(candidates, viable) ==
    LET with_key(key) == SelectSeq(viable, LAMBDA k : sort_key(candidates, k) = key)
    IN  with_key(<<0, 0>>) \o with_key(<<0, 1>>) \o with_key(<<1, 0>>) \o with_key(<<1, 1>>)

\* viable_candidates[:max_eval]; a negative max_eval counts from the end
slice_to(seq, max_eval) ==
    IF max_eval >= 0 THEN SubSeq(seq, 1, Min(max_eval, Len(seq)))
    ELSE SubSeq(seq, 1, Max(0, Len(seq) + max_eval))

\* max(evaluated_candidates, key=...): the first of the best
max_evaluated(candidates, done) ==
    LET key(k) == IF candidates[k].evaluation # <<>>
                  THEN candidates[k].evaluation[1].overall_score ELSE 0
    IN  done[CHOOSE n \in 1..Len(done) :
                 /\ \A j \in 1..Len(done) : key(done[n]) >= key(done[j])
                 /\ \A j \in 1..(n - 1) : key(done[n]) > key(done[j])]

\* mutant: no filter_complete event when no candidate is viable
yield_filter_complete_if_viable(evs, viable_count, filtered_out) ==
    IF viable_count = 0 THEN evs
    ELSE Append(evs, send_event("filter_complete",
                                [viable_count |-> viable_count,
                                 filtered_out |-> filtered_out]))

\* yield send_event("filter_complete", ...)
yield_filter_complete(evs, viable_count, filtered_out) ==
    Append(evs, send_event("filter_complete",
                           [viable_count |-> viable_count,
                            filtered_out |-> filtered_out]))

InitStream ==
    /\ name_ideas \in UNION {SeqsOfLen(UserNames, k) : k \in 0..MaxIdeas}
    /\ max_to_evaluate \in MaxToEvaluateValues
    /\ streamPc = "start"
    /\ all_candidates = <<>> /\ viable_candidates = <<>>
    /\ evaluated_candidates = <<>> /\ cursor = 0 /\ recommended = <<>>
    /\ events = <<>>
    /\ SimIdle /\ FindIdle /\ ScoreIdle /\ EvalIdle /\ ExtIdle
    /\ IntlIdle /\ ReasonIdle /\ PhonIdle /\ BatchIdle

\* lines 165-182: the user's ideas become candidates
StartStream ==
    /\ streamPc = "start"
    /\ all_candidates' =
           [k \in 1..Len(name_ideas) |-> NameCandidate(strip(name_ideas[k]), "user")]
    /\ events' =
           <<send_event("status", "Starting workflow...")>>
           \o (IF name_ideas # <<>>
               THEN <<send_event("status", <<"Added", Len(name_ideas)>>)>> ELSE <<>>)
           \o <<send_event("status", "Generating name candidates...")>>
    /\ streamPc' = "generate"
    /\ UNCHANGED <<name_ideas, max_to_evaluate, viable_candidates,
                   evaluated_candidates, cursor, recommended,
                   coreVars, extVars, intlVars, reasonVars, phonVars, batchVars>>

\* lines 183-196: the generated names are added
GenerateNames ==
    /\ streamPc = "generate"
    /\ \E generated_names \in UNION {SeqsOfLen(GeneratedNames, k) : k \in 0..MaxIdeas} :
        /\ all_candidates' = add_generated(all_candidates, generated_names)
        /\ events' =
               events \o
               <<send_event("status", <<"Generated", Len(generated_names)>>),
                 send_event("candidates",
                            [k \in 1..Len(all_candidates') |-> all_candidates'[k].name]),
                 send_event("status", "Checking domain availability...")>>
    /\ viable_candidates' = <<>>
    /\ cursor' = 1
    /\ streamPc' = "filter"
    /\ UNCHANGED <<name_ideas, max_to_evaluate, evaluated_candidates, recommended,
                   coreVars, extVars, intlVars, reasonVars, phonVars, batchVars>>

\* lines 198-212: one turn of the domain filter
CheckCandidateDomains ==
    /\ streamPc = "filter" /\ cursor <= Len(all_candidates)
    /\ \E domains \in DomainAnswers :
        LET passed == domains[".com"] \/ domains[".ai"] \/ domains[".io"]
        IN  /\ all_candidates' =
                   [all_candidates EXCEPT
                       ![cursor].domains_available = domains,
                       ![cursor].passed_domain_filter = IF passed THEN TRUE ELSE @,
                       ![cursor].rejection_reason =
                           IF passed THEN @ ELSE "No .com, .ai, or .io domain available"]
            /\ viable_candidates' =
                   IF passed THEN Append(viable_candidates, cursor) ELSE viable_candidates
    /\ events' = Append(events,
                        send_event("progress",
                                   <<"Checking domains for", all_candidates[cursor].name>>))
    /\ cursor' = cursor + 1
    /\ UNCHANGED <<streamPc, name_ideas, max_to_evaluate, evaluated_candidates,
                   recommended,
                   coreVars, extVars, intlVars, reasonVars, phonVars, batchVars>>

\* lines 214-226: the filter is through; the viable candidates are sorted
FilterComplete ==
    /\ streamPc = "filter" /\ cursor > Len(all_candidates)
    /\ events' = yield_filter_complete(events, Len(viable_candidates),
                                       Len(all_candidates) - Len(viable_candidates))
    /\ viable_candidates' = sort_viable(all_candidates, viable_candidates)
    /\ evaluated_candidates' = <<>>
    /\ cursor' = 1
    /\ streamPc' = "evaluate"
    /\ UNCHANGED <<name_ideas, max_to_evaluate, all_candidates, recommended,
                   coreVars, extVars, intlVars, reasonVars, phonVars, batchVars>>

\* lines 228-249: one turn of the evaluation loop
EvaluateCandidate ==
    /\ streamPc = "evaluate"
    /\ cursor <= Len(slice_to(viable_candidates, max_to_evaluate))
    /\ \E outcome \in EvaluateOutcomes :
        LET k == viable_candidates[cursor]
            progress == send_event("progress", <<"Evaluating", all_candidates[k].name>>)
        IN  IF outcome.raises
            THEN /\ all_candidates' =
                        [all_candidates EXCEPT ![k].rejection_reason = "Evaluation failed"]
                 /\ events' = Append(events, progress)
                 /\ UNCHANGED evaluated_candidates
            ELSE /\ all_candidates' =
                        [all_candidates EXCEPT
                            ![k].evaluation = <<[overall_score |-> outcome.overall_score]>>]
                 /\ evaluated_candidates' = Append(evaluated_candidates, k)
                 /\ events' =
                        events \o
                        <<progress,
                          send_event("evaluation",
                                     [name |-> all_candidates[k].name,
                                      score |-> outcome.overall_score,
                                      source |-> all_candidates[k].source])>>
    /\ cursor' = cursor + 1
    /\ UNCHANGED <<streamPc, name_ideas, max_to_evaluate, viable_candidates, recommended,
                   coreVars, extVars, intlVars, reasonVars, phonVars, batchVars>>

\* lines 251-282: the recommendation and the final event
CompleteStream ==
    /\ streamPc = "evaluate"
    /\ cursor > Len(slice_to(viable_candidates, max_to_evaluate))
    /\ recommended' =
           IF evaluated_candidates # <<>>
           THEN <<max_evaluated(all_candidates, evaluated_candidates)>>
           ELSE <<>>
    /\ events' =
           Append(events,
                  send_event("complete",
                             [all_candidates |-> all_candidates,
                              viable_count |-> Len(viable_candidates),
                              evaluated_count |-> Len(evaluated_candidates),
                              recommended |-> recommended']))
    /\ streamPc' = "done"
    /\ UNCHANGED <<name_ideas, max_to_evaluate, all_candidates, viable_candidates,
                   evaluated_candidates, cursor,
                   coreVars, extVars, intlVars, reasonVars, phonVars, batchVars>>

NextStream ==
    \/ StartStream
    \/ GenerateNames
    \/ CheckCandidateDomains
    \/ FilterComplete
    \/ EvaluateCandidate
    \/ CompleteStream

SpecStream == InitStream /\ [][NextStream]_vars

\* the server iterates the generator to its end, and each collaborator
\* called returns (or, for evaluate, raises): a turn that can be taken is taken
SpecStreamLive == SpecStream /\ WF_vars(NextStream)

-----------------------------------------------------------------------------
(* Claims on the string metrics and the static pass *)

One == [num |-> 1, den |-> 1]

ScoreEq(x, y) == x.num * y.den = y.num * x.den

Stripe == <<"S", "t", "r", "i", "p", "e">>

Stripey == <<"S", "t", "r", "i", "p", "e", "y">>

\* C1: for every non-empty name a, _calculate_similarity(a, a) is exactly 1.0.
\* The code returns 0.88: equal phonetic keys are prefixes of each other, so the
\* 0.7 of the prefix test overwrites the 1.0.
C1_SelfSimilarityIsOne ==
    (simPc = "return" /\ name1 = name2 /\ Len(name1) > 0)
        => ScoreEq(similarity, One)

\* C2: similarity("stripey", "stripe") > 0.8, so the static search for "Stripey"
\* returns Stripe and reports confusion_risk = "high".
C2_StripeyIsHighConfusion ==
    (pc = "return" /\ name = Stripey)
        => /\ ScoreAbove(_calculate_similarity(lower(Stripey), lower(Stripe)), 80)
           /\ \E i \in 1..Len(similar.matches) : similar.matches[i].name = Stripe
           /\ similar.confusion_risk = "high"

\* the catalog's scores against the lower-cased name, in the catalog's order
CatalogScores(nm) ==
    [k \in 1..Len(known_companies) |->
        _calculate_similarity(lower(nm), known_companies[k].company)]

\* C5: the static search returns at most 5 matches, in non-increasing order of
\* score, each a catalog entry scoring strictly above 0.5 and among the 5
\* highest-scoring entries above that threshold (none of them is left out while
\* there is room).
C5_StaticTopFiveSorted ==
    pc = "return" =>
        LET m == similar.matches
            scores == CatalogScores(name)
            above == {k \in 1..Len(known_companies) : ScoreAbove(scores[k], 50)}
        IN  /\ Len(m) <= 5
            /\ Len(m) = Min(5, Cardinality(above))
            /\ \A i \in 1..(Len(m) - 1) :
                   ScoreGE(m[i].similarity_score, m[i + 1].similarity_score)
            /\ \A i \in 1..Len(m) :
                   /\ ScoreAbove(m[i].similarity_score, 50)
                   /\ \E k \in above :
                          /\ m[i].name = title(known_companies[k].company)
                          /\ m[i].similarity_score = scores[k]
                   /\ Cardinality({k \in above :
                          ScoreGT(scores[k], m[i].similarity_score)}) < 5

\* C5 witness: several matches came back, and not in the catalog's order
C5_Witness ==
    /\ pc = "return"
    /\ Len(similar.matches) >= 2
    /\ ScoreGT(similar.matches[1].similarity_score, similar.matches[2].similarity_score)
    /\ similar.matches # static_matches(lower(name))

AnyAbove(matches, pct) ==
    \E i \in 1..Len(matches) : ScoreAbove(matches[i].similarity_score, pct)

\* C6: after the static search, confusion_risk is "high" iff a returned match
\* scores above 0.8; else "medium" iff one scores above 0.6; else "low", also
\* when nothing matched.
C6_StaticRiskThresholds ==
    pc = "return" =>
        /\ similar.confusion_risk \in {"low", "medium", "high"}
        /\ similar.confusion_risk = "high" <=> AnyAbove(similar.matches, 80)
        /\ similar.confusion_risk = "medium"
               <=> (~AnyAbove(similar.matches, 80) /\ AnyAbove(similar.matches, 60))
        /\ similar.confusion_risk = "low" <=> ~AnyAbove(similar.matches, 60)

\* C6 witness: a name of the catalog itself is a high-risk match
C6_Witness ==
    /\ pc = "return"
    /\ similar.confusion_risk = "high"
    /\ AnyAbove(similar.matches, 80)

-----------------------------------------------------------------------------
(* Claims on find_similar_companies *)

SortedDescending(matches) ==
    \A i \in 1..(Len(matches) - 1) :
        ScoreGE(matches[i].similarity_score, matches[i + 1].similarity_score)

\* C7: every result of find_similar_companies, on the static-only, the oracle
\* and the merged path of both variants, holds at most 5 matches in
\* score-descending order, whatever list the oracle returned.
C7_AtMostFiveSortedOnEveryPath ==
    pc = "return" =>
        /\ Len(similar.matches) <= 5
        /\ SortedDescending(similar.matches)

\* the highest score of a non-empty list
RECURSIVE max_score(_)
max_score(matches) ==
    IF Len(matches) = 1 THEN matches[1].similarity_score
    ELSE LET rest == max_score(Tail(matches))
         IN  IF ScoreGT(matches[1].similarity_score, rest)
             THEN matches[1].similarity_score
             ELSE rest

\* the level the static rule gives a maximum score: monotone in the score
LevelOfMax(matches) ==
    IF Len(matches) = 0 THEN "low"
    ELSE IF ScoreAbove(max_score(matches), 80) THEN "high"
    ELSE IF ScoreAbove(max_score(matches), 60) THEN "medium"
    ELSE "low"

\* C8 as stated: in every result of find_similar_companies, merged ones
\* included, confusion_risk is the monotone function of the maximum score in
\* matches given by the static thresholds (> 0.8 high, > 0.6 medium, else low).
C8_RiskFollowsMaxScore ==
    pc = "return" => similar.confusion_risk = LevelOfMax(similar.matches)

\* the oracle's answer was used: there is an API key and the call did not raise
OracleUsed == apiKey /\ llm_response.kind = "object"

\* C8 amended: confusion_risk is that monotone function of the maximum score
\* in every result that uses no oracle answer (no API key, or the oracle call
\* raised); when the oracle answered, namecast returns the oracle's own label
\* ("low" when the label is absent) and brandval's merged result never ranks
\* below the level of the static pass.
C8_RiskFollowsMaxScoreWithoutOracle ==
    pc = "return" =>
        /\ ~OracleUsed => similar.confusion_risk = LevelOfMax(similar.matches)
        /\ (OracleUsed /\ variant = "namecast") =>
               similar.confusion_risk =
                   IF llm_response.has_risk THEN llm_response.confusion_risk ELSE "low"
        /\ (OracleUsed /\ variant = "brandval") =>
               risk_order(similar.confusion_risk)
                   >= risk_order(LevelOfMax(static_result.matches))

\* C8 witness: the oracle call raised and the static pass's medium-risk
\* matches came back
C8_Witness ==
    /\ pc = "return" /\ apiKey /\ variant = "brandval"
    /\ llm_response.kind = "api_error"
    /\ Len(similar.matches) >= 2
    /\ similar.confusion_risk = "medium"

\* what find_similar_companies answers without the oracle
WithoutOracle ==
    IF variant = "brandval"
    THEN _find_similar_static(name)
    ELSE SimilarCompaniesResult(<<>>, "low")

\* the answer lacks something the prompt asked for
IncompleteResponse ==
    \/ llm_response.kind = "match_missing_key"
    \/ llm_response.kind = "object"
         /\ (~llm_response.has_matches \/ ~llm_response.has_risk)

\* C10 as stated: with the oracle configured, when its invocation fails in any
\* way (exception, timeout, malformed or incomplete response),
\* find_similar_companies does not raise and returns the static search's result
\* (brandval) or an empty list with risk "low" (namecast).
C10_AnyOracleFailureFallsBack ==
    (pc = "return" /\ apiKey
        /\ (llm_response.kind \in {"api_error", "invalid_json", "not_object"}
            \/ IncompleteResponse))
        => (~raised /\ similar = WithoutOracle)

\* C10 amended: with the oracle configured, when the oracle call raises (API
\* error or timeout, text that is not JSON, JSON that is not an object, a match
\* lacking a key), find_similar_companies does not raise and returns the static
\* search's result (brandval) or an empty list with risk "low" (namecast); an
\* object that only lacks the "matches" or the "confusion_risk" key is not a
\* failure: the key defaults to [] or "low" and the answer is used.
C10_RaisingOracleFallsBack ==
    /\ ~raised
    /\ (pc = "return" /\ apiKey
          /\ llm_response.kind \in
                 {"api_error", "invalid_json", "not_object", "match_missing_key"})
           => similar = WithoutOracle
    /\ (pc = "return" /\ apiKey /\ variant = "namecast"
          /\ llm_response.kind = "object")
           => /\ similar.matches = llm_response.matches
              /\ similar.confusion_risk =
                     IF llm_response.has_risk THEN llm_response.confusion_risk ELSE "low"

\* C10 witness: the oracle's text was not JSON and the static matches came back
C10_Witness ==
    /\ pc = "return" /\ apiKey /\ variant = "brandval"
    /\ llm_response.kind = "invalid_json"
    /\ ~raised
    /\ Len(similar.matches) > 0

-----------------------------------------------------------------------------
(* Claims on the scores *)

Zero == Rat(0, 1)

Hundred == Rat(100, 1)

InRange(x) == ScoreGE(x, Zero) /\ ScoreGE(Hundred, x)

\* C3: in every EvaluationResult evaluate returns, whatever the WHOIS lookups
\* and the oracle answered, the overall score and each of the six sub-scores
\* lie in [0, 100].
C3_ScoresWithinRange ==
    evPc = "return" =>
        /\ InRange(evaluation.overall_score)
        /\ InRange(evaluation.domain_score)
        /\ InRange(evaluation.social_score)
        /\ InRange(evaluation.trademark_score)
        /\ InRange(evaluation.pronunciation_score)
        /\ InRange(evaluation.international_score)
        /\ InRange(evaluation.similar_companies_score)

\* C3 witness: an evaluation in which a lookup failed, the oracle's label was
\* none of low / medium / high and the sub-scores differ from one another
C3_Witness ==
    /\ evPc = "return" /\ apiKey
    /\ \E tld \in DOMAIN whois : whois[tld] = "error"
    /\ llm_response.kind = "object" /\ llm_response.confusion_risk = "critical"
    /\ evaluation.similar_companies_score = Rat(85, 1)
    /\ evaluation.domain_score = Rat(125, 2)
    /\ evaluation.pronunciation_score = Rat(40, 1)

\* C4: in every EvaluationResult evaluate returns, overall_score is
\* 0.20 domain + 0.10 social + 0.20 trademark + 0.15 pronunciation
\* + 0.15 international + 0.20 similar companies of the sub-scores stored in
\* that result, and pronunciation_score is 10 times the stored pronunciation
\* analysis' score.
C4_OverallIsWeightedSum ==
    evPc = "return" =>
        /\ 100 * evaluation.overall_score.num
             * evaluation.domain_score.den * evaluation.pronunciation_score.den
           = evaluation.overall_score.den
             * ( 20 * evaluation.domain_score.num * evaluation.pronunciation_score.den
               + evaluation.domain_score.den * evaluation.pronunciation_score.den
                   * ( 10 * evaluation.social_score.num
                     + 20 * evaluation.trademark_score.num
                     + 15 * evaluation.international_score.num
                     + 20 * evaluation.similar_companies_score.num )
               + 15 * evaluation.pronunciation_score.num * evaluation.domain_score.den )
        /\ evaluation.social_score.den = 1
        /\ evaluation.trademark_score.den = 1
        /\ evaluation.international_score.den = 1
        /\ evaluation.similar_companies_score.den = 1
        /\ evaluation.pronunciation_score.num * evaluation.pronunciation.score.den
             = 10 * evaluation.pronunciation.score.num * evaluation.pronunciation_score.den

\* C4 witness: an evaluation whose six sub-scores are not all equal, so the
\* weights matter
C4_Witness ==
    /\ evPc = "return"
    /\ evaluation.social_score = Rat(100, 1)
    /\ evaluation.pronunciation_score = Rat(90, 1)
    /\ evaluation.international_score = Rat(80, 1)
    /\ evaluation.similar_companies_score = Rat(60, 1)
    /\ evaluation.domain_score = Rat(75, 2)
    /\ evaluation.overall_score = Rat(75, 1)

AllAvailable(domains) == \A tld \in DOMAIN domains : domains[tld]

NoneAvailable(domains) == \A tld \in DOMAIN domains : ~domains[tld]

OnlyComAvailable(domains) ==
    /\ ".com" \in DOMAIN domains
    /\ \A tld \in DOMAIN domains : domains[tld] <=> tld = ".com"

-----------------------------------------------------------------------------
(* C11: the match list of the merge *)

\* the lower-cased names of a match list, entry by entry
LowerNames(matches) == [i \in 1..Len(matches) |-> lower(matches[i].name)]

\* the entries of a list of names that repeat no earlier entry
FirstOfName(names) ==
    {i \in 1..Len(names) : \A j \in 1..(i - 1) : names[j] # names[i]}

\* the oracle's entries kept, by their place in the oracle's list
OracleKept == FirstOfName(LowerNames(llm_arg.matches))

\* the static entries added, by their place in the static list
StaticAdded ==
    LET oracle == LowerNames(llm_arg.matches)
        static == LowerNames(static_arg.matches)
    IN  {i \in FirstOfName(static) : \A j \in 1..Len(oracle) : oracle[j] # static[i]}

\* the candidates [match, place in the combined list before the sort]
Candidates ==
    {[match |-> llm_arg.matches[i], place |-> i] : i \in OracleKept}
        \cup {[match |-> static_arg.matches[i], place |-> Len(llm_arg.matches) + i]
                 : i \in StaticAdded}

\* candidate c comes before candidate d in the sorted list
SortsBefore(c, d) ==
    \/ ScoreGT(c.match.similarity_score, d.match.similarity_score)
    \/ /\ ScoreEq(c.match.similarity_score, d.match.similarity_score)
       /\ c.place < d.place

\* C11: the merged match list is the oracle's matches without repeats of a
\* lower-cased name (the first kept) plus the static matches whose lower-cased
\* name the oracle did not report, sorted by descending score (equal scores in
\* the order of the combined list) and cut to the best five; no two matches
\* share a lower-cased name, and a company reported by both keeps the
\* oracle's first entry for it.
C11_MergedMatchList ==
    mergePc = "return" =>
        LET R == merge_result.matches
            C == Candidates
            rank == [c \in C |-> 1 + Cardinality({d \in C : SortsBefore(d, c)})]
            names == LowerNames(R)
            oracle == LowerNames(llm_arg.matches)
            kept == OracleKept
        IN  /\ Len(R) = Min(5, Cardinality(C))
            /\ \A c \in C : rank[c] <= 5 => R[rank[c]] = c.match
            /\ FirstOfName(names) = 1..Len(R)
            /\ \A i \in kept : \A k \in 1..Len(R) :
                   oracle[i] = names[k] => R[k] = llm_arg.matches[i]

\* a merge where the oracle repeats a company under another spelling, the
\* static pass reports that company too with another score, more than five
\* candidates remain, and the oracle's first entry is among the five returned
C11_Witness ==
    /\ mergePc = "return"
    /\ Cardinality(Candidates) > 5
    /\ Len(merge_result.matches) = 5
    /\ Cardinality(OracleKept) < Len(llm_arg.matches)
    /\ \E i \in 1..Len(static_arg.matches) : \E k \in 1..5 :
           /\ lower(static_arg.matches[i].name) = lower(merge_result.matches[k].name)
           /\ merge_result.matches[k] = llm_arg.matches[1]
           /\ ~ScoreEq(static_arg.matches[i].similarity_score,
                       merge_result.matches[k].similarity_score)

-----------------------------------------------------------------------------
(* C12: the risk level of the merge *)

\* the order low < medium < high
Severity == [low |-> 0, medium |-> 1, high |-> 2]

RiskLevels == DOMAIN Severity

\* the risk level of the merge of a static result of level s with an oracle
\* result of level l
MergedRisk(s, l) ==
    _merge_similar_results(SimilarCompaniesResult(<<>>, s),
                           SimilarCompaniesResult(<<>>, l)).confusion_risk

\* C12: the confusion_risk of the merge is the higher of the static level and
\* the oracle's level under low < medium < high: it is one of the two, never
\* below either, the same whichever of the two results carries which level,
\* and a level merged with itself is that level.  (An oracle label outside
\* the three levels ranks with low and never displaces the static level.)
C12_MergedRiskIsHigher ==
    mergePc = "return" =>
        LET s == static_arg.confusion_risk
            l == llm_arg.confusion_risk
            r == merge_result.confusion_risk
        IN  /\ s \in RiskLevels
            /\ r \in {s, l}
            /\ l \in RiskLevels =>
                   /\ r \in RiskLevels
                   /\ Severity[r] >= Severity[s] /\ Severity[r] >= Severity[l]
                   /\ MergedRisk(l, s) = r
            /\ l \notin RiskLevels => r = s
            /\ MergedRisk(r, r) = r
            /\ s = l => r = s

\* a merge where the oracle reports no match and a level above the static one
C12_Witness ==
    /\ mergePc = "return"
    /\ static_arg.confusion_risk = "medium"
    /\ llm_arg.confusion_risk = "high"
    /\ merge_result.confusion_risk = "high"
    /\ Len(llm_arg.matches) = 0

-----------------------------------------------------------------------------
(* C13, C19: check_domains and the failed lookup *)

\* a map without the TLDs whose lookup failed
WithoutFailed(domains) ==
    [tld \in {t \in DOMAIN domains : whois[t] # "error"} |-> domains[tld]]

\* C13: a WHOIS lookup that fails is told apart from registered and from not
\* registered: its TLD is not recorded in the domain map and the domain score
\* counts it neither as available nor as taken.
C13_FailedLookupIsNotRecorded ==
    domPc = "return" =>
        /\ \A tld \in Range(DEFAULT_TLDS) :
               whois[tld] = "error" => tld \notin DOMAIN domain_map
        /\ _calc_domain_score(domain_map) = _calc_domain_score(WithoutFailed(domain_map))

\* C19: check_domains looks up the lower-cased name under each default TLD
\* once, in order, and returns a map whose keys are exactly .com, .io, .co,
\* .ai and .app, each TRUE exactly when its lookup returned no registration
\* record.
C19_DomainMapOfLookups ==
    domPc = "return" =>
        /\ Len(lookups) = 5
        /\ \A i \in 1..5 :
               lookups[i] = lower(name) \o tld_chars(<<".com", ".io", ".co", ".ai", ".app">>[i])
        /\ DOMAIN domain_map = {".com", ".io", ".co", ".ai", ".app"}
        /\ \A tld \in DOMAIN domain_map :
               domain_map[tld] = (whois[tld] # "registered")

\* a name with upper-case letters whose .com is registered, whose .io is not
\* and whose .ai lookup fails
C19_Witness ==
    /\ domPc = "return"
    /\ name = <<"S", "t", "r", "i", "p", "e">>
    /\ lookups[1] = <<"s", "t", "r", "i", "p", "e", ".", "c", "o", "m">>
    /\ whois[".com"] = "registered" /\ domain_map[".com"] = FALSE
    /\ whois[".io"] = "free" /\ domain_map[".io"] = TRUE
    /\ whois[".ai"] = "error" /\ domain_map[".ai"] = TRUE

-----------------------------------------------------------------------------
(* C14: evaluate always returns *)

IsScore(x) == DOMAIN x = {"num", "den"} /\ x.den > 0 /\ x.num >= 0

\* the call returned an EvaluationResult, with the overall score and every
\* sub-score computed
Produced ==
    /\ ~raised
    /\ evaluation.name = name
    /\ IsScore(evaluation.overall_score)
    /\ IsScore(evaluation.domain_score) /\ IsScore(evaluation.social_score)
    /\ IsScore(evaluation.trademark_score) /\ IsScore(evaluation.pronunciation_score)
    /\ IsScore(evaluation.international_score)
    /\ IsScore(evaluation.similar_companies_score)

\* how far the call of evaluate has come
EvalPosition ==
    CASE evPc = "call" -> 0
      [] evPc = "llm" -> 1
      [] evPc = "return" -> 2

\* C14: whatever the collaborators do (each WHOIS lookup answering, finding
\* nothing or failing; the similar-company oracle answering, raising or
\* sending malformed data; the perception oracle answering or raising),
\* evaluate(name, mission) terminates and returns an EvaluationResult with an
\* overall score and all six sub-scores: no exception leaves it, the call is
\* always running its checks, waiting for the oracle's outcome or returned,
\* every step brings it nearer to its return (so it returns once the
\* collaborators have delivered their outcomes, which SpecEvalLive assumes),
\* and at its return the result is complete.
C14_EvaluateAlwaysReturns ==
    /\ [](/\ ~raised
          /\ evPc \in {"call", "llm", "return"}
          /\ evPc = "return" => Produced)
    /\ [][EvalPosition' > EvalPosition]_vars

\* an evaluation with an API key where every WHOIS lookup failed, the
\* similar-company oracle raised and the perception oracle raised
C14_Witness ==
    /\ evPc = "return"
    /\ apiKey
    /\ \A tld \in Range(DEFAULT_TLDS) : whois[tld] = "error"
    /\ llm_response.kind = "api_error"
    /\ evaluation.perception.evokes = "professional, modern"
    /\ IsScore(evaluation.overall_score)

-----------------------------------------------------------------------------
(* C15, C16: the front ends *)

\* the request was a comparison and passed the password check
ComparisonAnswered ==
    /\ frontPc = "response" /\ route = "compare"
    /\ ~(frontend = "namecast_api" /\ ~authorized)

\* the front end names a winner: the HTTP API and the command line's table
NamesWinner == frontend # "cli" \/ ~output_json

InvalidRequest ==
    \/ \E i \in 1..Len(request_names) : Len(request_names[i]) < 2
    \/ route = "compare" /\ Len(request_names) < 2

\* C16: at every front end a request with a name shorter than 2 characters,
\* and a comparison request with fewer than two names, is rejected with a
\* validation error before evaluate is called for any of its names.
C16_InvalidRequestIsRejected ==
    (frontPc = "response" /\ ~(frontend = "namecast_api" /\ ~authorized)
        /\ InvalidRequest) =>
            /\ response.status \in {"400", "usage error"}
            /\ evaluated = <<>>

-----------------------------------------------------------------------------
(* C17: the edit distance *)

Least(S) == CHOOSE x \in S : \A y \in S : x <= y

\* the Levenshtein distance by its recurrence on the strings' first characters
RECURSIVE ClassicLevenshtein(_, _)
ClassicLevenshtein(a, b) ==
    IF Len(a) = 0 THEN Len(b)
    ELSE IF Len(b) = 0 THEN Len(a)
    ELSE Least({ ClassicLevenshtein(Tail(a), b) + 1,
                 ClassicLevenshtein(a, Tail(b)) + 1,
                 ClassicLevenshtein(Tail(a), Tail(b))
                     + (IF Head(a) = Head(b) THEN 0 ELSE 1) })

\* C17: the distance of a string to itself is 0, the distance is symmetric,
\* and it is the Levenshtein distance; so the distance to the empty string is
\* the other string's length.
C17_LevenshteinDistance ==
    levPc = "return" =>
        /\ lev_a = lev_b => distance = 0
        /\ distance = _levenshtein_distance(lev_b, lev_a)
        /\ distance = ClassicLevenshtein(lev_a, lev_b)
        /\ Len(lev_b) = 0 => distance = Len(lev_a)
        /\ Len(lev_a) = 0 => distance = Len(lev_b)

\* the shorter string first, and a substitution cheaper than a deletion and
\* an insertion: "zoom" to "Zoomy" is one substitution and one insertion
C17_Witness ==
    /\ levPc = "return"
    /\ lev_a = <<"z", "o", "o", "m">>
    /\ lev_b = <<"Z", "o", "o", "m", "y">>
    /\ distance = 2

-----------------------------------------------------------------------------
(* C18: the sections of the report *)

IsSectionHeader(line) == line[1] = "###"

\* the titles of the report's section headers, in the order of the report
SectionTitles ==
    LET headers == SelectSeq(report, IsSectionHeader)
    IN  [i \in 1..Len(headers) |-> headers[i][2]]

-----------------------------------------------------------------------------
(* C20: the pronunciation score *)

Clusters ==
    { <<"x", "w">>, <<"z", "x">>, <<"p", "t", "l">>, <<"t", "c", "h">>,
      <<"s", "c", "h">> }

\* the places of the word where the cluster begins
OccurrencesOf(cluster, word) ==
    {i \in 1..(Len(word) - Len(cluster) + 1) :
        SubSeq(word, i, i + Len(cluster) - 1) = cluster}

\* the base score, in tenths, of a syllable count
BaseOfSyllables(n) ==
    IF n <= 2 THEN 90 ELSE IF n = 3 THEN 70 ELSE IF n = 4 THEN 50 ELSE 30

Clamped(tenths) == IF tenths < 0 THEN 0 ELSE IF tenths > 100 THEN 100 ELSE tenths

\* name.lower() of the call's name
LowerName == lower(name)

\* C20: the pronunciation score is the base score of the syllable count
\* (at most 2: 9.0, 3: 7.0, 4: 5.0, more: 3.0) minus 1.5 for each occurrence
\* of a difficult cluster in the lower-cased name, clamped to [0, 10].
C20_PenaltyPerOccurrence ==
    pronPc = "return" =>
        LET occurrences ==
                {<<c, i>> \in Clusters \X (1..Len(name)) : i \in OccurrencesOf(c, LowerName)}
        IN  ScoreEq(pron_result.score,
                    [num |-> Clamped(BaseOfSyllables(pron_result.syllables)
                                         - 15 * Cardinality(occurrences)),
                     den |-> 10])

\* C20 as amended: 1.5 is subtracted once for each difficult cluster that
\* occurs in the lower-cased name, however often it occurs; the score is
\* clamped to [0, 10] and so always lies in [0, 10].
C20_PenaltyPerCluster ==
    pronPc = "return" =>
        LET present == {c \in Clusters : OccurrencesOf(c, LowerName) # {}}
        IN  /\ ScoreEq(pron_result.score,
                       [num |-> Clamped(BaseOfSyllables(pron_result.syllables)
                                            - 15 * Cardinality(present)),
                        den |-> 10])
            /\ ScoreGE(pron_result.score, [num |-> 0, den |-> 1])
            /\ ScoreGE([num |-> 10, den |-> 1], pron_result.score)

\* a name in which one cluster occurs three times: 3 syllables, 7.0 - 1.5
C20_Witness ==
    /\ pronPc = "return"
    /\ Cardinality(OccurrencesOf(<<"t", "c", "h">>, LowerName)) = 3
    /\ pron_result.syllables = 3
    /\ ScoreEq(pron_result.score, [num |-> 55, den |-> 10])

-----------------------------------------------------------------------------
(* C21: the syllable count *)

\* the places of the word where a maximal run of vowels (a, e, i, o, u, y)
\* begins
VowelRunStarts(word) ==
    {i \in 1..Len(word) :
        /\ word[i] \in {"a", "e", "i", "o", "u", "y"}
        /\ (i = 1 \/ word[i - 1] \notin {"a", "e", "i", "o", "u", "y"})}

EndsInE(word) == Len(word) > 0 /\ word[Len(word)] = "e"

\* C21: the syllable count of a name is the number of maximal runs of
\* vowels (a, e, i, o, u, y) in the lower-cased name, minus 1 when the name
\* ends in e and that number exceeds 1, and never less than 1; Spotify
\* counts 3.
C21_SyllableCount ==
    pronPc = "return" =>
        LET runs     == Cardinality(VowelRunStarts(LowerName))
            expected == IF EndsInE(LowerName) /\ runs > 1 THEN runs - 1 ELSE runs
        IN  /\ pron_result.syllables = (IF expected < 1 THEN 1 ELSE expected)
            /\ pron_result.syllables >= 1
            /\ name = <<"S", "p", "o", "t", "i", "f", "y">> => pron_result.syllables = 3

\* a name of two vowel runs, one of them longer than one vowel, that ends
\* in e: it counts 1
C21_Witness ==
    /\ pronPc = "return"
    /\ EndsInE(LowerName)
    /\ Cardinality(VowelRunStarts(LowerName)) = 2
    /\ \E i \in 2..Len(LowerName) :
           LowerName[i] \in SyllableVowels /\ LowerName[i - 1] \in SyllableVowels
    /\ pron_result.syllables = 1

-----------------------------------------------------------------------------
(* C22: the international check and its score *)

SevenLanguages ==
    {"spanish", "french", "german", "mandarin", "japanese", "portuguese", "arabic"}

\* the recorded meanings: <<word, language>>
KnownMeanings ==
    { << <<"m", "i", "s", "t">>, "german" >>,
      << <<"f", "a", "r", "t">>, "scandinavian" >>,
      << <<"n", "o", "v", "a">>, "spanish" >> }

FlaggedLanguages == {l \in DOMAIN intl_result : intl_result[l].has_issue}

\* C22: check_international(name) returns an entry for each of the seven
\* languages, an entry has has_issue = TRUE iff the lower-cased name is a
\* known problematic word with a recorded meaning in that language (Mist is
\* flagged for german, Luma for no language), and the international score
\* is max(0, 100 - 20 * number of flagged languages).
C22_InternationalCheck ==
    /\ intlPc \in {"checked", "return"} =>
           /\ DOMAIN intl_result = SevenLanguages
           /\ \A l \in SevenLanguages :
                  intl_result[l].has_issue = (<<LowerName, l>> \in KnownMeanings)
           /\ name = <<"M", "i", "s", "t">> => intl_result["german"].has_issue
           /\ name = <<"L", "u", "m", "a">> => FlaggedLanguages = {}
    /\ intlPc = "return" =>
           LET points == 100 - 20 * Cardinality(FlaggedLanguages)
           IN  ScoreEq(intl_score, [num |-> IF points < 0 THEN 0 ELSE points, den |-> 1])

\* a name written with capitals is flagged for one language and scores 80
C22_Witness ==
    /\ intlPc = "return"
    /\ name # LowerName
    /\ FlaggedLanguages = {"spanish"}
    /\ ScoreEq(intl_score, [num |-> 80, den |-> 1])

-----------------------------------------------------------------------------
(* C23: the weighted sum of the three similarities *)

\* the longest k for which the two names agree on their first k characters
CommonPrefixLength(a, b) ==
    Cardinality({k \in 1..Min(Len(a), Len(b)) : SubSeq(a, 1, k) = SubSeq(b, 1, k)})

\* 100 * phoneticSimilarity as the claim states it
ClaimedPhoneticSimilarity(a, b) ==
    LET key_a == _simplify_phonetic(a)
        key_b == _simplify_phonetic(b)
    IN  IF key_a = key_b THEN 100
        ELSE IF startswith(key_a, key_b) \/ startswith(key_b, key_a) THEN 70
        ELSE 0

\* 0.4 * editSimilarity + 0.4 * phoneticSimilarity + 0.2 * prefixSimilarity
ClaimedSimilarity(a, b) ==
    LET longest == Max(Len(a), Len(b))
        phon    == ClaimedPhoneticSimilarity(a, b)
    IN  IF longest = 0 THEN [num |-> 400 + 4 * phon, den |-> 1000]
        ELSE [num |-> 400 * (longest - _levenshtein_distance(a, b))
                          + 4 * phon * longest
                          + 200 * CommonPrefixLength(a, b),
              den |-> 1000 * longest]

\* C23: for all names a and b, _calculate_similarity(a, b) equals
\* 0.4 * editSimilarity + 0.4 * phoneticSimilarity + 0.2 * prefixSimilarity,
\* where phoneticSimilarity is 1.0 when the two phonetic keys are equal,
\* otherwise 0.7 when one key is a literal prefix of the other, otherwise 0.
C23_WeightedSumOfSimilarities ==
    simPc = "return" => ScoreEq(similarity, ClaimedSimilarity(name1, name2))

-----------------------------------------------------------------------------
(* C24: the reason code *)

ReasonCodes ==
    <<"identical", "shares prefix", "sounds similar", "very close spelling",
      "similar spelling", "partially similar">>

\* whether the k-th rule applies to the pair; the last rule always does
RuleApplies(k, a, b) ==
    CASE k = 1 -> a = b
      [] k = 2 -> \/ (Len(b) <= Len(a) /\ SubSeq(a, 1, Len(b)) = b)
                  \/ (Len(a) <= Len(b) /\ SubSeq(b, 1, Len(a)) = a)
      [] k = 3 -> _simplify_phonetic(a) = _simplify_phonetic(b)
      [] k = 4 -> _levenshtein_distance(a, b) <= 2
      [] k = 5 -> _levenshtein_distance(a, b) <= 4
      [] k = 6 -> TRUE

\* C24: for all lower-cased names a and b, the reason code is chosen by the
\* first rule that applies, in the order identical, shares prefix (one is a
\* literal prefix of the other), sounds similar (equal phonetic keys), very
\* close spelling (edit distance <= 2), similar spelling (edit distance
\* <= 4), partially similar; exactly one code is returned for every pair.
C24_FirstApplicableReason ==
    reasonPc = "return" =>
        /\ \E k \in 1..6 :
               /\ reason_code = ReasonCodes[k]
               /\ RuleApplies(k, name1, name2)
               /\ \A j \in 1..(k - 1) : ~RuleApplies(j, name1, name2)
        /\ Cardinality({k \in 1..6 : reason_code = ReasonCodes[k]}) = 1

\* a pair of different names with equal phonetic keys of which one is a
\* prefix of the other: the earlier rule wins
C24_Witness ==
    /\ reasonPc = "return"
    /\ RuleApplies(2, name1, name2) /\ RuleApplies(3, name1, name2)
    /\ name1 # name2
    /\ reason_code = "shares prefix"

-----------------------------------------------------------------------------
(* C25: the phonetic key *)

RECURSIVE Flatten(_)
Flatten(seqs) == IF seqs = <<>> THEN <<>> ELSE Head(seqs) \o Flatten(Tail(seqs))

\* the literal replacement of every occurrence of old in s by new, the
\* occurrences taken from the left and not overlapping
ReplaceEvery(s, old, new) ==
    LET OccursAt(i) == i + Len(old) - 1 <= Len(s) /\ SubSeq(s, i, i + Len(old) - 1) = old
        Replaced[i \in 1..Len(s)] ==
            /\ OccursAt(i)
            /\ \A j \in 1..(i - 1) : j + Len(old) > i => ~Replaced[j]
        Covered(i) == \E j \in 1..(i - 1) : j + Len(old) > i /\ Replaced[j]
    IN  Flatten([i \in 1..Len(s) |->
                    IF Replaced[i] THEN new
                    ELSE IF Covered(i) THEN <<>>
                    ELSE <<s[i]>>])

\* the fifteen replacements, in order
FifteenReplacements ==
    << <<"ph", "f">>, <<"ck", "k">>, <<"gh", "g">>, <<"kn", "n">>, <<"wr", "r">>,
       <<"wh", "w">>, <<"ee", "i">>, <<"ea", "i">>, <<"oo", "u">>, <<"ou", "u">>,
       <<"ai", "a">>, <<"ay", "a">>, <<"ey", "i">>, <<"ie", "i">>, <<"y", "i">> >>

\* the characters of a literal of FifteenReplacements
Chars(literal) ==
    CASE literal = "ph" -> <<"p", "h">> [] literal = "ck" -> <<"c", "k">>
      [] literal = "gh" -> <<"g", "h">> [] literal = "kn" -> <<"k", "n">>
      [] literal = "wr" -> <<"w", "r">> [] literal = "wh" -> <<"w", "h">>
      [] literal = "ee" -> <<"e", "e">> [] literal = "ea" -> <<"e", "a">>
      [] literal = "oo" -> <<"o", "o">> [] literal = "ou" -> <<"o", "u">>
      [] literal = "ai" -> <<"a", "i">> [] literal = "ay" -> <<"a", "y">>
      [] literal = "ey" -> <<"e", "y">> [] literal = "ie" -> <<"i", "e">>
      [] OTHER -> <<literal>>

\* the string after the first k replacements
RECURSIVE AfterReplacements(_, _)
AfterReplacements(s, k) ==
    IF k = 0 THEN s
    ELSE ReplaceEvery(AfterReplacements(s, k - 1),
                      Chars(FifteenReplacements[k][1]), Chars(FifteenReplacements[k][2]))

\* every vowel a, e, i, o, u deleted except one in first position
WithoutLaterVowels(s) ==
    Flatten([i \in 1..Len(s) |->
                IF i > 1 /\ s[i] \in {"a", "e", "i", "o", "u"} THEN <<>> ELSE <<s[i]>>])

\* C25: _simplify_phonetic(s) is the result of lower-casing s, applying the
\* fifteen literal replacements ph>f, ck>k, gh>g, kn>n, wr>r, wh>w, ee>i,
\* ea>i, oo>u, ou>u, ai>a, ay>a, ey>i, ie>i, y>i one after another in that
\* order, each on the output of the previous one, and then deleting every
\* vowel a, e, i, o, u except a vowel in first position; the result never
\* contains a vowel after its first character.
C25_PhoneticKey ==
    phonPc = "return" =>
        /\ phonetic_key = WithoutLaterVowels(AfterReplacements(LowerName, 15))
        /\ \A i \in 2..Len(phonetic_key) :
               phonetic_key[i] \notin {"a", "e", "i", "o", "u"}

\* a string on which a later replacement acts on the output of an earlier
\* one (eee: ee>i gives ie, ie>i gives i) and whose key keeps its first vowel
C25_Witness ==
    /\ phonPc = "return"
    /\ AfterReplacements(LowerName, 7) # LowerName
    /\ AfterReplacements(LowerName, 14) # AfterReplacements(LowerName, 7)
    /\ Len(AfterReplacements(LowerName, 14)) < Len(AfterReplacements(LowerName, 7))
    /\ Len(phonetic_key) >= 1
    /\ phonetic_key[1] \in {"a", "e", "i", "o", "u"}

-----------------------------------------------------------------------------
(* C26: the similar-companies sub-score *)

\* the sub-score, out of 100, the claim gives a result
ClaimedSimilarScore(matches, risk) ==
    IF matches = <<>> THEN 100
    ELSE CASE risk = "high" -> 20
           [] risk = "medium" -> 60
           [] OTHER -> 85

\* C26: the similar-companies sub-score of a SimilarCompaniesResult is 100
\* when the match list is empty, whatever the risk label, otherwise 20 when
\* the risk is high, 60 when it is medium and 85 for any other label; so for
\* a non-empty match list the sub-score never increases when the risk level
\* rises.
C26_SimilarCompaniesScore ==
    evPc = "return" =>
        LET result == evaluation.similar_companies
        IN  /\ ScoreEq(evaluation.similar_companies_score,
                       [num |-> ClaimedSimilarScore(result.matches, result.confusion_risk),
                        den |-> 1])
            /\ result.matches # <<>> =>
                   \A lower_risk, higher_risk \in RiskLevels :
                       Severity[lower_risk] <= Severity[higher_risk] =>
                           ScoreGE(_calc_similar_companies_score(
                                       SimilarCompaniesResult(result.matches, lower_risk)),
                                   _calc_similar_companies_score(
                                       SimilarCompaniesResult(result.matches, higher_risk)))

\* an evaluation whose oracle reported a high risk and no match: 100
C26_Witness ==
    /\ evPc = "return"
    /\ evaluation.similar_companies.matches = <<>>
    /\ evaluation.similar_companies.confusion_risk = "high"
    /\ ScoreEq(evaluation.similar_companies_score, [num |-> 100, den |-> 1])

-----------------------------------------------------------------------------
(* C27: the evaluations of a batch do not interfere *)

\* the EvaluationResult of a name evaluated alone, for every name and every
\* way the collaborators answer
EvaluationsAlone ==
    [nm \in FrontNames, outcomes \in FrontWhois, key \in BOOLEAN,
     resp \in BatchOracleResponses \cup {NoResponse} |->
        evaluate("namecast", nm,
                 evaluate_checks("namecast", nm, None, key, outcomes,
                                 IF key THEN "raises" ELSE "not called"),
                 namecast_find_similar_companies(key, resp).result)]

\* the EvaluationResult of the name evaluated alone, the collaborators
\* answering as they do in the batch
EvaluatedAlone(nm) == EvaluationsAlone[nm, whois_of[nm], apiKey, oracle_of[nm]]

AllReturned == \A i \in 1..Len(batch_names) : batch_pc[i] = "return"

\* C27: when the names of a batch are evaluated with their evaluations
\* interleaved in any order, the collaborators answering the same for each
\* name, every name's EvaluationResult equals the result of evaluating that
\* name alone; and the winner is selected only after every name's
\* evaluation has completed (and is the best of all the results).
C27_BatchEvaluationsIndependent ==
    /\ \A i \in 1..Len(batch_names) :
           batch_pc[i] = "return" => batch_results[i] = EvaluatedAlone(batch_names[i])
    /\ batch_winner # None =>
           /\ AllReturned
           /\ \E i \in 1..Len(batch_names) :
                  /\ batch_winner = batch_names[i]
                  /\ \A j \in 1..Len(batch_names) :
                         ScoreGE(EvaluatedAlone(batch_names[i]).overall_score,
                                 EvaluatedAlone(batch_names[j]).overall_score)

\* the second call has returned while the first, on another name for which
\* the collaborators answer differently, is between its two steps
C27_Witness ==
    /\ Len(batch_names) >= 2
    /\ batch_pc[1] = "checked" /\ batch_pc[2] = "return"
    /\ batch_names[1] # batch_names[2]
    /\ whois_of[batch_names[1]] # whois_of[batch_names[2]]
    /\ apiKey /\ oracle_of[batch_names[1]] # oracle_of[batch_names[2]]
    /\ batch_results[2].similar_companies.matches # <<>>

-----------------------------------------------------------------------------
(* C28: the range of the similarity scores *)

WithinUnitInterval(score) ==
    /\ score.num * score.den >= 0
    /\ ScoreGE([num |-> 1, den |-> 1], score)

\* C28: every match in a SimilarCompaniesResult returned by
\* find_similar_companies, on the static, the oracle or the merged path, has
\* a similarity score within [0, 1].
C28_MatchScoresWithinUnitInterval ==
    pc = "return" =>
        \A i \in 1..Len(similar.matches) :
            WithinUnitInterval(similar.matches[i].similarity_score)

-----------------------------------------------------------------------------
(* C29: the order of the events of the stream *)

\* the places of the stream that hold an event of the type
EventsOfType(type) == {n \in 1..Len(events) : events[n].type = type}

\* the places of the progress events of the domain filter, and of the
\* progress and evaluation events of the evaluation loop
DomainCheckEvents ==
    {n \in EventsOfType("progress") : events[n].data[1] = "Checking domains for"}

EvaluationEvents ==
    {n \in EventsOfType("progress") : events[n].data[1] = "Evaluating"}
        \cup EventsOfType("evaluation")

StreamOrdered ==
    /\ Cardinality(EventsOfType("filter_complete")) <= 1
    /\ Cardinality(EventsOfType("complete")) <= 1
    /\ \A f \in EventsOfType("filter_complete") :
           /\ \A n \in DomainCheckEvents : n < f
           /\ Cardinality(DomainCheckEvents) = Len(all_candidates)
    /\ \A n \in EvaluationEvents : \E f \in EventsOfType("filter_complete") : f < n
    /\ \A c \in EventsOfType("complete") : c = Len(events)
    /\ streamPc = "done" =>
           /\ Cardinality(EventsOfType("filter_complete")) = 1
           /\ Cardinality(EventsOfType("complete")) = 1

\* C29: provided name generation and the domain checks return, the stream
\* emits exactly one filter_complete event, after all the progress events
\* of the domain checks and before any progress or evaluation event of the
\* evaluation loop, and exactly one complete event, the last event of the
\* stream; also when every candidate is filtered out or every candidate's
\* evaluation raises.
C29_StreamEventOrder ==
    /\ []StreamOrdered
    /\ <>(streamPc = "done")

\* the stream has ended after the evaluation of each of two viable
\* candidates raised
C29_Witness ==
    /\ streamPc = "done"
    /\ Len(viable_candidates) >= 2 /\ max_to_evaluate >= 2
    /\ evaluated_candidates = <<>>
    /\ Cardinality(EvaluationEvents) = 2

-----------------------------------------------------------------------------
(* C30: which candidates the stream evaluates and which it recommends *)

\* the candidates (places of all_candidates) whose evaluation was attempted:
\* it returned, or it raised
Succeeded == {k \in 1..Len(all_candidates) : all_candidates[k].evaluation # <<>>}

Failed ==
    {k \in 1..Len(all_candidates) :
        all_candidates[k].rejection_reason = "Evaluation failed"}

Attempted == Succeeded \cup Failed

PassedDomainFilter(k) ==
    \E tld \in {".com", ".ai", ".io"} : all_candidates[k].domains_available[tld]

\* the candidates that passed the domain filter
Viable == {k \in 1..Len(all_candidates) : PassedDomainFilter(k)}

OverallScore(k) == all_candidates[k].evaluation[1].overall_score

\* what C30 says of the candidates evaluated, but for their number
EvaluatedSelection ==
    /\ Attempted \subseteq Viable
    /\ \A k \in Attempted :
           all_candidates[k].source = "generated" =>
               \A u \in Viable : all_candidates[u].source = "user" => u \in Attempted
    /\ \A k \in Failed : \A n \in 1..Len(evaluated_candidates) : evaluated_candidates[n] # k
    /\ Succeeded = {evaluated_candidates[n] : n \in 1..Len(evaluated_candidates)}
    /\ recommended = <<>> <=> Succeeded = {}
    /\ recommended # <<>> =>
           /\ recommended[1] \in Succeeded
           /\ \A k \in Succeeded : OverallScore(recommended[1]) >= OverallScore(k)

\* C30: the stream attempts evaluation only for candidates that passed the
\* domain filter (one of .com, .ai, .io available), for at most
\* max_to_evaluate of them (for none when max_to_evaluate is not positive),
\* user-supplied candidates before generated ones; a candidate whose
\* evaluation raises gets a rejection reason and is not in the evaluated
\* set; and the recommended candidate is absent iff no evaluation succeeded,
\* otherwise it is a successfully evaluated candidate of maximal overall
\* score.
C30_EvaluatedAndRecommended ==
    streamPc = "done" =>
        /\ EvaluatedSelection
        /\ Cardinality(Attempted) <= Max(0, max_to_evaluate)

====
